---- MODULE Spec2Model ----
(***************************************************************************)
(* Connectivity core of the PCB board model (class BOARD): the board's     *)
(* item containers, the connectivity index, the track tracer (MarkTrace,   *)
(* chainMarkedSegments) and the point-to-point path check                  *)
(* (TracksInNetBetweenPoints, checkConnectedTo).                           *)
(***************************************************************************)
EXTENDS Integers, Sequences, FiniteSets, TLC

(***************************************************************************)
(* Bounds of the model.                                                    *)
(***************************************************************************)
\* largest number of tracks and vias held in m_Track
MaxTracks == 4
\* largest number of footprints the editing layer adds to m_Modules
MaxModules == 1
\* largest number of segments made by CreateLockPoint that exist at a time
MaxNewTracks == 1
\* largest number of zones made by InsertArea that exist at a time
MaxNewZones == 1
\* largest number of footprints made by ReplaceNetlist that exist at a time
MaxNewModules == 1

\* the null pointer (no item)
NULL == "NULL"

(***************************************************************************)
(* Items.  A track, via or zone outline is named by an identifier; its     *)
(* fields (type, end points, layer, layer set, net code, the cached        *)
(* connection pointers and the pad status flags) are in geom.              *)
(***************************************************************************)
Layers == {0, 1}

P0 == <<0, 0>>
P1 == <<2, 0>>
P2 == <<4, 0>>
P3 == <<6, 0>>
P4 == <<2, 2>>

\* a copper segment (PCB_TRACE_T) on one layer
Trace(s, e, l, n) ==
    [type |-> "PCB_TRACE_T", start |-> s, end |-> e, layer |-> l, layers |-> {l},
     net |-> n, startItem |-> NULL, endItem |-> NULL, state |-> {}]

\* a via (PCB_VIA_T): one position, a span of layers
Via(p, ls, n) ==
    [type |-> "PCB_VIA_T", start |-> p, end |-> p,
     layer |-> CHOOSE l \in ls : \A k \in ls : l <= k, layers |-> ls,
     net |-> n, startItem |-> NULL, endItem |-> NULL, state |-> {}]

\* a zone outline (PCB_ZONE_AREA_T) on one layer; start and end hold its
\* first corner
Zone(n, l, corner) ==
    [type |-> "PCB_ZONE_AREA_T", start |-> corner, end |-> corner, layer |-> l,
     layers |-> {l}, net |-> n, startItem |-> NULL, endItem |-> NULL, state |-> {}]

T1 == "t1"
T2 == "t2"
T3 == "t3"
T4 == "t4"
T5 == "t5"
V1 == "v1"
V2 == "v2"
V3 == "v3"
V4 == "v4"
T6 == "t6"
Z1 == "z1"

\* the tracks and vias the editing layer can hand to Add: the chain
\* P0-P1-P2-P3 on layer 0, a branch leaving P1, a segment on layer 1 and a
\* through via at P1
Catalog ==
    (T1 :> Trace(P0, P1, 0, 1)) @@ (T2 :> Trace(P1, P2, 0, 1)) @@
    (T3 :> Trace(P2, P3, 0, 1)) @@ (T4 :> Trace(P1, P4, 0, 1)) @@
    (T5 :> Trace(P1, P2, 1, 1)) @@ (V1 :> Via(P1, Layers, 1))

TrackIds == DOMAIN Catalog

\* a second through via, at P2: with T2, T5 and V1 it closes a loop of
\* segments and vias
LoopCatalog == (V2 :> Via(P2, Layers, 1))

\* a board of more than two copper layers: two blind vias stacked at P1, one
\* joining layers 0 and 1, one joining layers 1 and 2, and a segment leaving
\* P1 on layer 2
StackCatalog ==
    (V3 :> Via(P1, {1, 2}, 1)) @@ (V4 :> Via(P1, {0, 1}, 1)) @@
    (T6 :> Trace(P1, P2, 2, 1))

\* the zone outline the editing layer can hand to Add
ZoneCatalog == (Z1 :> Zone(1, 0, P0))

\* the items made by the board itself: the segment CreateLockPoint clones,
\* the zones InsertArea allocates, the footprints ReplaceNetlist copies
NewTrackIds == [i \in 1..MaxNewTracks |-> "k" \o ToString(i)]
NewZoneIds == [i \in 1..MaxNewZones |-> "a" \o ToString(i)]
NewModuleIds == [i \in 1..MaxNewModules |-> "n" \o ToString(i)]

\* footprints of the editing layer and their pads: MA has one pad at P1 on
\* layer 0; MB has a pad at P2 on layer 1 and a pad at P3 on layer 0
MA == "mA"
MB == "mB"
ModuleIds == {MA, MB}

PadA1 == "padA1"
PadB1 == "padB1"
PadB2 == "padB2"

\* MODULE::Pads(); a footprint copied from the netlist has the two pads of
\* the library footprint
Pads(mod) ==
    IF mod = MA THEN <<PadA1>>
    ELSE IF mod = MB THEN <<PadB1, PadB2>>
    ELSE <<mod \o ".1", mod \o ".2">>

AllModuleIds == ModuleIds \cup {NewModuleIds[i] : i \in 1..MaxNewModules}

AllPads == UNION {{Pads(m)[i] : i \in 1..Len(Pads(m))} : m \in AllModuleIds}

\* the footprint a pad belongs to
Owner(p) == CHOOSE m \in AllModuleIds : \E i \in 1..Len(Pads(m)) : Pads(m)[i] = p

\* pad name, position relative to the footprint, layer set, pad-to-die length
PadInfo ==
    [p \in AllPads |->
        IF p = PadA1 THEN [name |-> "1", offset |-> <<0, 0>>, layers |-> {0}, padToDie |-> 3]
        ELSE IF p = PadB1 THEN [name |-> "1", offset |-> <<0, 0>>, layers |-> {1}, padToDie |-> 0]
        ELSE IF p = PadB2 THEN [name |-> "2", offset |-> <<2, 0>>, layers |-> {0}, padToDie |-> 5]
        ELSE IF p = Pads(Owner(p))[1]
             THEN [name |-> "1", offset |-> <<1, 5>>, layers |-> {0}, padToDie |-> 0]
             ELSE [name |-> "2", offset |-> <<3, 5>>, layers |-> {0}, padToDie |-> 0]]

\* the footprints the editing layer can hand to Add
ModuleCatalog ==
    (MA :> [reference |-> "U1", path |-> "/a", fpid |-> "libA", value |-> "10k",
            locked |-> FALSE, pos |-> P1]) @@
    (MB :> [reference |-> "U2", path |-> "/b", fpid |-> "libB", value |-> "1uF",
            locked |-> FALSE, pos |-> P2])

VARIABLES
    m_Track,    \* the board's list of tracks and vias, in list order
    geom,       \* the fields of every track, via and zone outline
    busy,       \* the tracks and vias whose BUSY flag is set
    m_Modules,  \* the board's list of footprints, in list order
    mods,       \* the fields of every footprint
    padcode,    \* the net code of every pad
    m_ZoneDescriptorList,   \* the board's vector of zone outlines
    m_NetInfo,  \* the net registry: the net names, net code 0 first
    conn,       \* the items registered in the connectivity index
    res         \* the last operation, its arguments and what it returned

vars == <<m_Track, geom, busy, m_Modules, mods, padcode, m_ZoneDescriptorList,
          m_NetInfo, conn, res>>

(***************************************************************************)
(* Sequence helpers.                                                       *)
(***************************************************************************)
Range(s) == {s[i] : i \in 1..Len(s)}

\* a local variable: Body applied to the value of v, v being computed once
Local(v, Body(_)) == CHOOSE r \in {Body(x) : x \in {v}} : TRUE

RECURSIVE Without(_, _)
\* std::remove + erase: the list without every occurrence of x
Without(s, x) ==
    IF s = <<>> THEN <<>>
    ELSE IF Head(s) = x THEN Without(Tail(s), x)
         ELSE <<Head(s)>> \o Without(Tail(s), x)

\* index of x in s, 0 when absent
IndexOf(s, x) == IF x \in Range(s) THEN CHOOSE i \in 1..Len(s) : s[i] = x ELSE 0

\* DLIST::Insert( item, before ): before == NULL appends
InsertBefore(s, x, before) ==
    IF before = NULL THEN Append(s, x)
    ELSE LET i == IndexOf(s, before)
         IN SubSeq(s, 1, i - 1) \o <<x>> \o SubSeq(s, i, Len(s))

\* TRACK::Next() within the list s
NextIn(s, x) ==
    LET i == IndexOf(s, x) IN IF i = 0 \/ i = Len(s) THEN NULL ELSE s[i + 1]

Touches(t, pos) == geom[t].start = pos \/ geom[t].end = pos

(***************************************************************************)
(* Pads.                                                                   *)
(***************************************************************************)
RECURSIVE Flatten(_)
Flatten(ss) == IF ss = <<>> THEN <<>> ELSE Head(ss) \o Flatten(Tail(ss))

\* every pad of the footprints in the list, footprint by footprint
PadsOf(modules) == Flatten([i \in 1..Len(modules) |-> Pads(modules[i])])

GetPads == PadsOf(m_Modules)

\* D_PAD::GetPosition: the pad moves with its footprint
GetPosition(p) ==
    <<mods[Owner(p)].pos[1] + PadInfo[p].offset[1],
      mods[Owner(p)].pos[2] + PadInfo[p].offset[2]>>

\* the first pad, footprint by footprint, at pos on a layer of lset
FirstPad(pos, lset) ==
    LET hits == SelectSeq(GetPads,
                    LAMBDA p : GetPosition(p) = pos /\ (PadInfo[p].layers \cap lset) # {})
    IN IF hits = <<>> THEN NULL ELSE Head(hits)

\* mutant of GetPadFast: the layer test inverted
GetPadFast_OtherLayers(aPosition, aLayerSet) == FirstPad(aPosition, Layers \ aLayerSet)

GetPadFast(aPosition, aLayerSet) == FirstPad(aPosition, aLayerSet)

\* MODULE::GetPad on each footprint in turn; an empty mask means all copper
GetPad(aPosition, aLayerSet) ==
    FirstPad(aPosition, IF aLayerSet = {} THEN Layers ELSE aLayerSet)

(***************************************************************************)
(* The pad list sorted by x then y and the search in it.  Indices are      *)
(* those of the code, from 0: the pad at index idx is aPadList[idx + 1].   *)
(***************************************************************************)
\* sortPadsByXthenYCoord: ref comes before comp
sortPadsByXthenYCoord(ref, comp) ==
    IF GetPosition(ref)[1] = GetPosition(comp)[1]
    THEN GetPosition(ref)[2] < GetPosition(comp)[2]
    ELSE GetPosition(ref)[1] < GetPosition(comp)[1]

\* the pads GetSortedPadListByXthenYCoord pushes, before the sort
PadsOfNet(aNetCode) ==
    SelectSeq(GetPads, LAMBDA pad : aNetCode < 0 \/ padcode[pad] = aNetCode)

\* the orders std::sort can leave them in: the order of pads at one
\* position is not determined
SortedPadLists(aNetCode) ==
    {s \in [1..Len(PadsOfNet(aNetCode)) -> Range(PadsOfNet(aNetCode))] :
        /\ Range(s) = Range(PadsOfNet(aNetCode))
        /\ \A i, j \in 1..Len(s) : i < j => ~sortPadsByXthenYCoord(s[j], s[i])}

\* the pad matches the layer mask
OnLayerSet(pad, aLayerSet) == (aLayerSet \cap PadInfo[pad].layers) # {}

RECURSIVE searchNext(_, _, _, _)
\* the loop "search next": from index ii upwards while the position is the same
searchNext(aPadList, ii, aPosition, aLayerSet) ==
    IF ii > Len(aPadList) - 1 THEN NULL
    ELSE IF GetPosition(aPadList[ii + 1]) # aPosition THEN NULL
    ELSE IF OnLayerSet(aPadList[ii + 1], aLayerSet) THEN aPadList[ii + 1]
    ELSE searchNext(aPadList, ii + 1, aPosition, aLayerSet)

RECURSIVE searchPrevious(_, _, _, _)
\* the loop "search previous": from index ii downwards
searchPrevious(aPadList, ii, aPosition, aLayerSet) ==
    IF ii < 0 THEN NULL
    ELSE IF GetPosition(aPadList[ii + 1]) # aPosition THEN NULL
    ELSE IF OnLayerSet(aPadList[ii + 1], aLayerSet) THEN aPadList[ii + 1]
    ELSE searchPrevious(aPadList, ii - 1, aPosition, aLayerSet)

\* a pad at aPosition was met at index idx: that pad, or a neighbour at the
\* same position, that matches the mask
candidateFound(aPadList, idx, aPosition, aLayerSet) ==
    IF OnLayerSet(aPadList[idx + 1], aLayerSet) THEN aPadList[idx + 1]
    ELSE Local(searchNext(aPadList, idx + 1, aPosition, aLayerSet), LAMBDA pad :
             IF pad # NULL THEN pad
             ELSE searchPrevious(aPadList, idx - 1, aPosition, aLayerSet))

\* half of the interval without the rounding up of an odd size
halfInterval_Truncated(delta) == delta \div 2

\* the half size of the remaining interval, an odd size above 1 rounded up
halfInterval(delta) ==
    IF delta % 2 = 1 /\ delta > 1 THEN (delta + 1) \div 2 ELSE delta \div 2

\* must the search go on after the item at idx
searchAfter(pad, aPosition) ==
    IF GetPosition(pad)[1] = aPosition[1] THEN GetPosition(pad)[2] < aPosition[2]
    ELSE GetPosition(pad)[1] < aPosition[1]

\* the index of the next test, kept within the list
nextIndex(aPadList, idx, delta, after) ==
    IF after THEN (IF idx + delta > Len(aPadList) - 1 THEN Len(aPadList) - 1
                   ELSE idx + delta)
    ELSE (IF idx - delta < 0 THEN 0 ELSE idx - delta)

RECURSIVE padSearch(_, _, _, _, _)
\* the while( delta ) loop
padSearch(aPadList, idx, delta, aPosition, aLayerSet) ==
    IF delta = 0 THEN NULL
    ELSE IF GetPosition(aPadList[idx + 1]) = aPosition
    THEN candidateFound(aPadList, idx, aPosition, aLayerSet)
    ELSE padSearch(aPadList,
                   nextIndex(aPadList, idx, halfInterval(delta),
                             searchAfter(aPadList[idx + 1], aPosition)),
                   halfInterval(delta), aPosition, aLayerSet)

\* BOARD::GetPad( aPadList, aPosition, aLayerSet )
GetPadInList(aPadList, aPosition, aLayerSet) ==
    padSearch(aPadList, 0, Len(aPadList), aPosition, aLayerSet)

(***************************************************************************)
(* Point-to-point path check.                                              *)
(***************************************************************************)
TracksInNet(aNetCode) == SelectSeq(m_Track, LAMBDA t : geom[t].net = aNetCode)

removeTrack(aList, aOneToRemove) == Without(aList, aOneToRemove)

otherEnd(aTrack, aNotThisEnd) ==
    IF geom[aTrack].start = aNotThisEnd THEN geom[aTrack].end ELSE geom[aTrack].start

RECURSIVE find_vias(_, _, _, _, _)
\* first loop: absorb the vias at next, widening lset with each
find_vias(in_net, i, at_next, rest, acc) ==
    IF i > Len(in_net)
    THEN [at_next |-> at_next, in_net |-> rest, lset |-> acc.lset, next |-> acc.next]
    ELSE LET t == in_net[i] IN
         IF geom[t].type = "PCB_VIA_T" /\ (geom[t].layers \cap acc.lset) # {}
            /\ Touches(t, acc.next)
         THEN find_vias(in_net, i + 1, Append(at_next, t), rest,
                        [acc EXCEPT !.lset = acc.lset \cup geom[t].layers])
         ELSE find_vias(in_net, i + 1, at_next, Append(rest, t), acc)

RECURSIVE find_tracks(_, _, _, _, _, _)
\* second loop: collect everything with an end at next on a layer of lset
find_tracks(in_net, i, at_next, rest, acc, track_count) ==
    IF i > Len(in_net)
    THEN [at_next |-> at_next, in_net |-> rest, lset |-> acc.lset,
          track_count |-> track_count]
    ELSE LET t == in_net[i] IN
         IF (geom[t].layers \cap acc.lset) # {} /\ Touches(t, acc.next)
         THEN find_tracks(in_net, i + 1, Append(at_next, t), rest, acc, track_count + 1)
         ELSE find_tracks(in_net, i + 1, at_next, Append(rest, t), acc, track_count)

\* mutant of find_vias_and_tracks_at: it tells whether a track was found,
\* not how many
find_vias_and_tracks_at_Found(at_next, in_net, lset, next) ==
    LET v == find_vias(in_net, 1, at_next, <<>>, [lset |-> lset, next |-> next])
        f == find_tracks(v.in_net, 1, v.at_next, <<>>, [lset |-> v.lset, next |-> next], 0)
    IN [f EXCEPT !.track_count = IF @ > 1 THEN 1 ELSE @]

find_vias_and_tracks_at(at_next, in_net, lset, next) ==
    LET v == find_vias(in_net, 1, at_next, <<>>, [lset |-> lset, next |-> next])
    IN find_tracks(v.in_net, 1, v.at_next, <<>>, [lset |-> v.lset, next |-> next], 0)

\* the number printed in the junction failure text
JunctionCount(track_count, size) == IF track_count + size = 1 THEN 1 ELSE 0

\* one pass of the while loop of checkConnectedTo, its test included: done
\* when the walk returned (ok) or threw (why: the kind of the failure, the
\* position and the number printed in its text, and the value of track_count
\* when it was thrown), otherwise the working set, layer set and position of
\* the next pass
checkIteration(aList, in_net, lset, next, aGoal, aStart) ==
    IF in_net = <<>>
    THEN [done |-> TRUE, ok |-> FALSE, list |-> aList, in_net |-> in_net,
          lset |-> lset, next |-> next,
          why |-> [kind |-> "not enough tracks", at |-> aGoal, count |-> 0, found |-> 0]]
    ELSE IF next = aGoal
    THEN [done |-> TRUE, ok |-> TRUE, list |-> aList, in_net |-> in_net,
          lset |-> lset, next |-> next,
          why |-> [kind |-> "none", at |-> next, count |-> 0, found |-> 0]]
    ELSE IF GetPadFast(next, lset) # NULL
    THEN [done |-> TRUE, ok |-> FALSE, list |-> aList, in_net |-> in_net,
          lset |-> lset, next |-> next,
          why |-> [kind |-> "intervening pad", at |-> next, count |-> 0, found |-> 0]]
    ELSE Local(find_vias_and_tracks_at(aList, in_net, lset, next), LAMBDA f :
         IF f.track_count # 1
         THEN [done |-> TRUE, ok |-> FALSE, list |-> f.at_next, in_net |-> f.in_net,
               lset |-> f.lset, next |-> next,
               why |-> [kind |-> "found tracks intersecting", at |-> next,
                        count |-> JunctionCount(f.track_count, Len(f.at_next)),
                        found |-> f.track_count]]
         ELSE Local(f.at_next[Len(f.at_next)], LAMBDA last :
              [done |-> FALSE, ok |-> FALSE, list |-> f.at_next, in_net |-> f.in_net,
               lset |-> geom[last].layers, next |-> otherEnd(last, next),
               why |-> [kind |-> "none", at |-> next, count |-> 0, found |-> 0]]))

RECURSIVE checkLoop(_, _, _, _, _, _)
\* the while loop of checkConnectedTo and the throw behind it
checkLoop(aList, in_net, lset, next, aGoal, aStart) ==
    Local(checkIteration(aList, in_net, lset, next, aGoal, aStart), LAMBDA n :
        IF n.done THEN [ok |-> n.ok, list |-> n.list, why |-> n.why]
        ELSE checkLoop(n.list, n.in_net, n.lset, n.next, aGoal, aStart))

checkConnectedTo(aList, aTracksInNet, aGoal, aStart, aFirstTrack) ==
    checkLoop(Append(aList, aFirstTrack), removeTrack(aTracksInNet, aFirstTrack),
              {geom[aFirstTrack].layer}, otherEnd(aFirstTrack, aStart), aGoal, aStart)

RECURSIVE explore_NoClear(_, _, _, _, _, _, _)
\* mutant of explore: in_between_pts is not cleared before an attempt
explore_NoClear(on_start_point, i, in_between_pts, in_net, aStartPos, aGoalPos, problems) ==
    IF i > Len(on_start_point)
    THEN [thrown |-> TRUE, tracks |-> <<>>, problems |-> problems]
    ELSE LET c == checkConnectedTo(in_between_pts, in_net, aGoalPos, aStartPos,
                                   on_start_point[i]) IN
         IF c.ok
         THEN [thrown |-> FALSE, tracks |-> c.list, problems |-> problems]
         ELSE explore_NoClear(on_start_point, i + 1, c.list, in_net, aStartPos,
                              aGoalPos, Append(problems, c.why))

RECURSIVE explore(_, _, _, _, _, _, _)
\* the loop over the traces leaving aStartPos; in_between_pts is cleared
\* before every attempt
explore(on_start_point, i, in_between_pts, in_net, aStartPos, aGoalPos, problems) ==
    IF i > Len(on_start_point)
    THEN [thrown |-> TRUE, tracks |-> <<>>, problems |-> problems]
    ELSE LET c == checkConnectedTo(<<>>, in_net, aGoalPos, aStartPos, on_start_point[i]) IN
         IF c.ok
         THEN [thrown |-> FALSE, tracks |-> c.list, problems |-> problems]
         ELSE explore(on_start_point, i + 1, c.list, in_net, aStartPos, aGoalPos,
                      Append(problems, c.why))

TracksInNetBetweenPointsResult(aStartPos, aGoalPos, aNetCode) ==
    LET in_net == TracksInNet(aNetCode)
        on_start_point ==
            SelectSeq(in_net,
                LAMBDA t : geom[t].type = "PCB_TRACE_T" /\ Touches(t, aStartPos))
    IN explore(on_start_point, 1, <<>>, in_net, aStartPos, aGoalPos, <<>>)
        @@ [candidates |-> on_start_point]

(***************************************************************************)
(* Track tracer.                                                           *)
(***************************************************************************)
\* the part of m_Track from aStartTrace to the end; empty for NULL
ListFrom(aStartTrace) ==
    IF aStartTrace = NULL \/ IndexOf(m_Track, aStartTrace) = 0 THEN <<>>
    ELSE SubSeq(m_Track, IndexOf(m_Track, aStartTrace), Len(m_Track))

m_TrackHead == IF m_Track = <<>> THEN NULL ELSE Head(m_Track)

\* ::GetTrack( aStartTrace, NULL, aPosition, aLayerMask ): the first item from
\* aStartTrace on that is not BUSY, has an end at aPosition and is on aLayerMask
GetTrack(aStartTrace, aPosition, aLayerMask, bz) ==
    LET hits == SelectSeq(ListFrom(aStartTrace),
                    LAMBDA t : t \notin bz /\ Touches(t, aPosition)
                               /\ (geom[t].layers \cap aLayerMask) # {})
    IN IF hits = <<>> THEN NULL ELSE Head(hits)

\* TRACK::GetVia( NULL, aPosition, aLayerMask ): the first via that is not BUSY
GetVia(aStartTrace, aPosition, aLayerMask, bz) ==
    LET hits == SelectSeq(ListFrom(aStartTrace),
                    LAMBDA t : geom[t].type = "PCB_VIA_T" /\ geom[t].start = aPosition
                               /\ t \notin bz /\ (geom[t].layers \cap aLayerMask) # {})
    IN IF hits = <<>> THEN NULL ELSE Head(hits)

RECURSIVE scanSegments(_, _, _, _, _, _)
\* the inner while loop of chainMarkedSegments: the candidate, and whether
\* a second segment was met (the position ends the track)
scanSegments(from, aPosition, layer_set, via, bz, candidate) ==
    Local(GetTrack(from, aPosition, layer_set, bz), LAMBDA segment :
        IF segment = NULL THEN [candidate |-> candidate, branch |-> FALSE]
        ELSE IF segment \in bz \/ segment = via
        THEN scanSegments(NextIn(m_Track, segment), aPosition, layer_set, via, bz,
                          candidate)
        ELSE IF candidate = NULL
        THEN scanSegments(NextIn(m_Track, segment), aPosition, layer_set, via, bz,
                          segment)
        ELSE [candidate |-> candidate, branch |-> TRUE])

\* a pass that takes the first segment it meets, a second one or not
chainStep_TakesFirst(aPosition, layer_set, bz) ==
    IF GetPad(aPosition, layer_set) # NULL
    THEN [pad |-> TRUE, via |-> NULL, candidate |-> NULL, branch |-> FALSE]
    ELSE Local(GetVia(m_TrackHead, aPosition, layer_set, bz), LAMBDA via :
             Local(scanSegments(m_TrackHead, aPosition,
                                IF via # NULL THEN geom[via].layers ELSE layer_set,
                                via, bz, NULL),
                   LAMBDA s : [pad |-> FALSE, via |-> via, candidate |-> s.candidate,
                               branch |-> FALSE]))

\* one pass of the for( ; ; ) loop: what it finds at aPosition
chainStep(aPosition, layer_set, bz) ==
    IF GetPad(aPosition, layer_set) # NULL
    THEN [pad |-> TRUE, via |-> NULL, candidate |-> NULL, branch |-> FALSE]
    ELSE Local(GetVia(m_TrackHead, aPosition, layer_set, bz), LAMBDA via :
             Local(scanSegments(m_TrackHead, aPosition,
                                IF via # NULL THEN geom[via].layers ELSE layer_set,
                                via, bz, NULL),
                   LAMBDA s : [pad |-> FALSE, via |-> via, candidate |-> s.candidate,
                               branch |-> s.branch]))

\* mutant of chainIteration: the candidate is pushed and not flagged
chainIteration_NoFlag(aPosition, layer_set, aList, bz) ==
    Local(chainStep(aPosition, layer_set, bz), LAMBDA st :
        Local(IF st.via # NULL THEN Append(aList, st.via) ELSE aList, LAMBDA lst :
            IF st.pad
            THEN [done |-> TRUE, aPosition |-> aPosition, layer_set |-> layer_set,
                  list |-> aList, busy |-> bz]
            ELSE IF st.branch \/ st.candidate = NULL
            THEN [done |-> TRUE, aPosition |-> aPosition,
                  layer_set |-> IF st.via # NULL THEN geom[st.via].layers ELSE layer_set,
                  list |-> lst, busy |-> bz]
            ELSE [done |-> FALSE, aPosition |-> otherEnd(st.candidate, aPosition),
                  layer_set |-> geom[st.candidate].layers,
                  list |-> Append(lst, st.candidate), busy |-> bz]))

\* one pass of the for( ; ; ) loop: done when it returned, otherwise the
\* candidate is pushed and flagged and the walk goes on from its other end
chainIteration(aPosition, layer_set, aList, bz) ==
    Local(chainStep(aPosition, layer_set, bz), LAMBDA st :
        Local(IF st.via # NULL THEN Append(aList, st.via) ELSE aList, LAMBDA lst :
            IF st.pad
            THEN [done |-> TRUE, aPosition |-> aPosition, layer_set |-> layer_set,
                  list |-> aList, busy |-> bz]
            ELSE IF st.branch \/ st.candidate = NULL
            THEN [done |-> TRUE, aPosition |-> aPosition,
                  layer_set |-> IF st.via # NULL THEN geom[st.via].layers ELSE layer_set,
                  list |-> lst, busy |-> bz]
            ELSE [done |-> FALSE, aPosition |-> otherEnd(st.candidate, aPosition),
                  layer_set |-> geom[st.candidate].layers,
                  list |-> Append(lst, st.candidate),
                  busy |-> bz \cup {st.candidate}]))

RECURSIVE chainLoop(_, _, _, _)
chainLoop(aPosition, layer_set, aList, bz) ==
    Local(chainIteration(aPosition, layer_set, aList, bz), LAMBDA n :
        IF n.done THEN [list |-> n.list, busy |-> n.busy]
        ELSE chainLoop(n.aPosition, n.layer_set, n.list, n.busy))

chainMarkedSegments(aPosition, aLayerSet, aList, bz) ==
    IF m_Track = <<>> THEN [list |-> aList, busy |-> bz]
    ELSE chainLoop(aPosition, aLayerSet, aList, bz)

Abs(x) == IF x < 0 THEN -x ELSE x

\* GetLineLength: the end points used here share a coordinate
Dist(a, b) == Abs(a[1] - b[1]) + Abs(a[2] - b[2])

GetLength(t) == Dist(geom[t].start, geom[t].end)

\* mutant of ViaStart: the third segment is not searched for
ViaStart_TwoOnly(aTrace, bz) ==
    Local(GetTrack(m_TrackHead, geom[aTrace].start, geom[aTrace].layers, bz),
          LAMBDA segm1 :
        [segm1 |-> segm1,
         segm2 |-> IF segm1 # NULL
                   THEN GetTrack(NextIn(m_Track, segm1), geom[aTrace].start,
                                 geom[aTrace].layers, bz)
                   ELSE NULL,
         segm3 |-> NULL])

\* start item is a via: the up to three segments found at its position
ViaStart(aTrace, bz) ==
    Local(GetTrack(m_TrackHead, geom[aTrace].start, geom[aTrace].layers, bz),
          LAMBDA segm1 :
        Local(IF segm1 # NULL
              THEN GetTrack(NextIn(m_Track, segm1), geom[aTrace].start,
                            geom[aTrace].layers, bz)
              ELSE NULL,
              LAMBDA segm2 :
            [segm1 |-> segm1, segm2 |-> segm2,
             segm3 |-> IF segm2 # NULL
                       THEN GetTrack(NextIn(m_Track, segm2), geom[aTrace].start,
                                     geom[aTrace].layers, bz)
                       ELSE NULL]))

\* the chain walk of MarkTrace: the list of collected items and the flags
MarkChains(aTrace, bz) ==
    IF geom[aTrace].type = "PCB_VIA_T"
    THEN Local(ViaStart(aTrace, bz), LAMBDA s :
             Local(IF s.segm1 # NULL
                   THEN chainMarkedSegments(geom[aTrace].start, geom[s.segm1].layers,
                                            <<aTrace>>, bz)
                   ELSE [list |-> <<aTrace>>, busy |-> bz],
                   LAMBDA c1 :
                 IF s.segm2 # NULL
                 THEN chainMarkedSegments(geom[aTrace].start, geom[s.segm2].layers,
                                          c1.list, c1.busy)
                 ELSE c1))
    ELSE Local(chainMarkedSegments(geom[aTrace].start, geom[aTrace].layers, <<>>, bz),
               LAMBDA from_start :
             Local(chainMarkedSegments(geom[aTrace].end, geom[aTrace].layers, <<>>,
                                       from_start.busy),
                   LAMBDA from_end :
                 [list |-> <<aTrace>> \o from_start.list \o from_end.list,
                  busy |-> from_end.busy]))

RECURSIVE otherLayer(_, _, _, _, _)
\* the while loop of the via pass: is a further unflagged segment at the via
\* on another layer than the first one found
otherLayer(track, via, layer, layer_set, bz) ==
    Local(GetTrack(NextIn(m_Track, track), geom[via].start, layer_set, bz), LAMBDA t :
        IF t = NULL THEN FALSE
        ELSE IF geom[t].layer # layer THEN TRUE
        ELSE otherLayer(t, via, layer, layer_set, bz))

\* a via pass that keeps every collected via flagged
ViaOnTrack_Keeps(via, bz) == bz \cup {via}

\* the via pass for one collected via: flag it, unflag it again when it joins
\* unflagged segments on different layers
ViaOnTrack(via, bz) ==
    Local(GetTrack(m_TrackHead, geom[via].start, geom[via].layers, bz \cup {via}),
          LAMBDA track :
        IF track = NULL THEN bz \cup {via}
        ELSE IF otherLayer(track, via, geom[track].layer, geom[via].layers,
                           bz \cup {via})
             THEN bz \ {via}
             ELSE bz \cup {via})

RECURSIVE viaPass(_, _, _, _)
\* go through trackList backwards
viaPass(trackList, i, aTrace, bz) ==
    IF i < 1 THEN bz
    ELSE IF geom[trackList[i]].type # "PCB_VIA_T" \/ trackList[i] = aTrace
         THEN viaPass(trackList, i - 1, aTrace, bz)
         ELSE Local(ViaOnTrack(trackList[i], bz),
                    LAMBDA b : viaPass(trackList, i - 1, aTrace, b))

\* the last item of m_Track flagged BUSY instead of the first
FirstBusy_Last(bz) ==
    LET hits == SelectSeq(m_Track, LAMBDA t : t \in bz)
    IN IF hits = <<>> THEN NULL ELSE hits[Len(hits)]

\* the first item of m_Track flagged BUSY, NULL when none is
FirstBusy(bz) ==
    LET hits == SelectSeq(m_Track, LAMBDA t : t \in bz)
    IN IF hits = <<>> THEN NULL ELSE Head(hits)

\* a pad found at an end of a flagged item: the first one found is the
\* start pad, the second one the end pad
NotePad(acc, pad, at) ==
    IF pad = NULL THEN acc
    ELSE IF acc.s_pad = NULL
         THEN [acc EXCEPT !.s_pad = pad, !.dist_fromstart = Dist(at, GetPosition(pad))]
    ELSE IF acc.e_pad = NULL
         THEN [acc EXCEPT !.e_pad = pad, !.dist_fromend = Dist(at, GetPosition(pad))]
    ELSE acc

\* one flagged item's contribution to the length and the end pads
LengthStep(acc, track) ==
    Local(GetPad(geom[track].start, geom[track].layers), LAMBDA pad_on_start :
        Local(GetPad(geom[track].end, geom[track].layers), LAMBDA pad_on_end :
            IF pad_on_start # NULL /\ pad_on_start = pad_on_end THEN acc
            ELSE Local([acc EXCEPT !.full_len = @ + GetLength(track)], LAMBDA a1 :
                     Local(NotePad(a1, pad_on_start, geom[track].start), LAMBDA a2 :
                         NotePad(a2, pad_on_end, geom[track].end)))))

RECURSIVE lengthLoop_AllItems(_, _, _)
\* mutant of lengthLoop: the items that are not flagged are measured too
lengthLoop_AllItems(list, bz, acc) ==
    IF list = <<>> THEN acc
    ELSE Local(LengthStep(acc, Head(list)),
               LAMBDA a : lengthLoop_AllItems(Tail(list), bz, a))

RECURSIVE lengthLoop(_, _, _)
lengthLoop(list, bz, acc) ==
    IF list = <<>> THEN acc
    ELSE IF Head(list) \notin bz THEN lengthLoop(Tail(list), bz, acc)
         ELSE Local(LengthStep(acc, Head(list)),
                    LAMBDA a : lengthLoop(Tail(list), bz, a))

\* mutant of CountAndClear: the flag of firstTrack itself is not cleared
CountAndClear_AfterFirst(firstTrack, bz) ==
    [busy_count |-> Len(SelectSeq(ListFrom(firstTrack), LAMBDA t : t \in bz)),
     busy |-> bz \ Range(Tail(ListFrom(firstTrack)))]

\* aTraceLength without aReorder: count the flagged items from firstTrack on
\* and clear their flag
CountAndClear(firstTrack, bz) ==
    [busy_count |-> Len(SelectSeq(ListFrom(firstTrack), LAMBDA t : t \in bz)),
     busy |-> bz \ Range(ListFrom(firstTrack))]

RECURSIVE reorderLoop_Lost(_, _, _, _, _)
\* mutant of reorderLoop: a flagged item is unlinked and not inserted again
reorderLoop_Lost(list, track, firstTrack, bz, busy_count) ==
    IF track = NULL THEN [list |-> list, busy_count |-> busy_count]
    ELSE Local(NextIn(list, track), LAMBDA next :
             IF track \in bz
             THEN reorderLoop_Lost(Without(list, track), next, firstTrack, bz,
                                   busy_count + 1)
             ELSE reorderLoop_Lost(list, next, firstTrack, bz, busy_count))

RECURSIVE reorderLoop(_, _, _, _, _)
\* aReorder: every flagged item after firstTrack is unlinked and inserted
\* right after firstTrack
reorderLoop(list, track, firstTrack, bz, busy_count) ==
    IF track = NULL THEN [list |-> list, busy_count |-> busy_count]
    ELSE Local(NextIn(list, track), LAMBDA next :
             IF track \in bz
             THEN Local(Without(list, track), LAMBDA unlinked :
                      Local(InsertBefore(unlinked, track, NextIn(unlinked, firstTrack)),
                            LAMBDA relinked :
                          reorderLoop(relinked, next, firstTrack, bz, busy_count + 1)))
             ELSE reorderLoop(list, next, firstTrack, bz, busy_count))

\* the part of MarkTrace after the via pass: firstTrack, the length, the
\* reordering or the count
MarkTraceTail(aTrace, hasCount, hasLength, aReorder, b1, firstTrack) ==
    Local(lengthLoop(ListFrom(firstTrack), b1,
                     [full_len |-> 0, s_pad |-> NULL, e_pad |-> NULL,
                      dist_fromstart |-> 0, dist_fromend |-> 0]),
          LAMBDA acc :
        Local(reorderLoop(m_Track, NextIn(m_Track, firstTrack), firstTrack, b1, 1),
              LAMBDA ro :
            Local(CountAndClear(firstTrack, b1), LAMBDA cc :
                [ret |-> firstTrack,
                 count |-> IF ~hasCount THEN NULL
                           ELSE IF aReorder THEN ro.busy_count
                           ELSE IF hasLength THEN cc.busy_count
                           ELSE 1,
                 traceLength |->
                     IF hasLength
                     THEN acc.full_len
                          + (IF acc.s_pad # NULL THEN acc.dist_fromstart ELSE 0)
                          + (IF acc.e_pad # NULL THEN acc.dist_fromend ELSE 0)
                     ELSE NULL,
                 padToDie |->
                     (IF acc.s_pad # NULL THEN PadInfo[acc.s_pad].padToDie ELSE 0)
                     + (IF acc.e_pad # NULL THEN PadInfo[acc.e_pad].padToDie ELSE 0),
                 busy |-> IF ~aReorder /\ hasLength THEN cc.busy ELSE b1,
                 m_Track |-> IF aReorder THEN ro.list ELSE m_Track,
                 marked |-> b1 \cap Range(m_Track), early |-> FALSE])))

\* MarkTrace: hasCount, hasLength say whether aCount, aTraceLength are given
MarkTraceResult(aTrace, hasCount, hasLength, aReorder) ==
    IF aTrace = NULL
    THEN [ret |-> NULL, count |-> IF hasCount THEN 0 ELSE NULL,
          traceLength |-> IF hasLength THEN 0 ELSE NULL, padToDie |-> NULL,
          busy |-> busy, m_Track |-> m_Track, marked |-> {}, early |-> TRUE]
    ELSE
    Local((busy \ Range(m_Track)) \cup {aTrace}, LAMBDA b0 :
        IF geom[aTrace].type = "PCB_VIA_T" /\ ViaStart(aTrace, b0).segm3 # NULL
        THEN [ret |-> aTrace, count |-> IF hasCount THEN 1 ELSE NULL,
              traceLength |-> IF hasLength THEN 0 ELSE NULL, padToDie |-> NULL,
              busy |-> b0, m_Track |-> m_Track, marked |-> {aTrace}, early |-> TRUE]
        ELSE
        Local(MarkChains(aTrace, b0), LAMBDA ch :
            Local(viaPass(ch.list, Len(ch.list), aTrace, ch.busy), LAMBDA b1 :
                Local(FirstBusy(b1), LAMBDA firstTrack :
                    IF firstTrack = NULL
                    THEN [ret |-> NULL, count |-> IF hasCount THEN 0 ELSE NULL,
                          traceLength |-> IF hasLength THEN 0 ELSE NULL,
                          padToDie |-> NULL, busy |-> b1, m_Track |-> m_Track,
                          marked |-> b1 \cap Range(m_Track), early |-> TRUE]
                    ELSE MarkTraceTail(aTrace, hasCount, hasLength, aReorder, b1,
                                       firstTrack)))))

(***************************************************************************)
(* Board mutation.  Every operation is called from the editing layer,      *)
(* which holds no pending result (Idle); Return hands the result of the    *)
(* last call back to it.  An item exists from its creation to its disposal: *)
(* the tracks, vias and zones that exist are DOMAIN geom, the footprints   *)
(* that exist are DOMAIN mods.                                             *)
(***************************************************************************)
Idle == res.op = "idle"

\* the items held in the board's containers
OnBoard == Range(m_Track) \cup Range(m_Modules) \cup Range(m_ZoneDescriptorList)

\* the items the editing layer can create
EditorCatalog == Catalog @@ ZoneCatalog @@ LoopCatalog @@ StackCatalog

Type(aBoardItem) ==
    IF aBoardItem \in DOMAIN EditorCatalog THEN EditorCatalog[aBoardItem].type
    ELSE IF aBoardItem \in DOMAIN geom THEN geom[aBoardItem].type
    ELSE IF aBoardItem \in AllModuleIds THEN "PCB_MODULE_T"
    ELSE IF aBoardItem \in AllPads THEN "PCB_PAD_T"
    ELSE "NOT_USED"

\* f without x in its domain
Drop(f, x) == [y \in DOMAIN f \ {x} |-> f[y]]

\* the first identifier of pool that names no existing item, NULL when
\* every one is taken
FirstFree(pool, existing) ==
    LET free == SelectSeq(pool, LAMBDA id : id \notin existing)
    IN IF free = <<>> THEN NULL ELSE Head(free)

\* TRACK::GetBestInsertPoint: the first track whose net code is not smaller
GetBestInsertPoint(aNet) ==
    LET hits == SelectSeq(m_Track, LAMBDA t : aNet <= geom[t].net)
    IN IF hits = <<>> THEN NULL ELSE Head(hits)

\* CONNECTIVITY_DATA::Add: a footprint registers its pads
ConnAdd(index, aItem) ==
    IF aItem \in AllModuleIds THEN index \cup Range(Pads(aItem))
    ELSE index \cup {aItem}

\* CONNECTIVITY_DATA::Remove
ConnRemove(index, aItem) ==
    IF aItem \in AllModuleIds THEN index \ Range(Pads(aItem))
    ELSE index \ {aItem}

\* the container part of BOARD::Add for tracks and vias
AddTrack(aBoardItem, aMode) ==
    IF aMode = "ADD_APPEND" THEN Append(m_Track, aBoardItem)
    ELSE InsertBefore(m_Track, aBoardItem,
                      GetBestInsertPoint(EditorCatalog[aBoardItem].net))

\* the container part of BOARD::Add for footprints
AddModule(aBoardItem, aMode) ==
    IF aMode = "ADD_APPEND" THEN Append(m_Modules, aBoardItem)
    ELSE <<aBoardItem>> \o m_Modules

\* the item containers and the connectivity index
Containers ==
    [m_Track |-> m_Track, m_Modules |-> m_Modules,
     m_ZoneDescriptorList |-> m_ZoneDescriptorList, conn |-> conn]

\* the types of the model that the switch of Add and of Remove has a case for
ContainerTypes == {"PCB_TRACE_T", "PCB_VIA_T", "PCB_ZONE_AREA_T", "PCB_MODULE_T"}

\* Add.  A null item and an item of a type without a case return at once.
\* Any other item is one the editing layer has just created from its catalog
\* (no flag set on it, its pads on no net)
Add(aBoardItem, aMode) ==
    /\ Idle
    /\ IF aBoardItem = NULL \/ Type(aBoardItem) \notin ContainerTypes
       THEN UNCHANGED <<m_Track, m_Modules, m_ZoneDescriptorList, geom, mods, padcode,
                        conn>>
       ELSE /\ aBoardItem \notin DOMAIN geom \cup DOMAIN mods
            /\ Type(aBoardItem) \in {"PCB_TRACE_T", "PCB_VIA_T"} =>
                  Len(m_Track) < MaxTracks
            /\ Type(aBoardItem) = "PCB_MODULE_T" =>
                  /\ aBoardItem \in ModuleIds
                  /\ Cardinality(Range(m_Modules) \cap ModuleIds) < MaxModules
            /\ m_Track' = IF Type(aBoardItem) \in {"PCB_TRACE_T", "PCB_VIA_T"}
                          THEN AddTrack(aBoardItem, aMode) ELSE m_Track
            /\ m_Modules' = IF Type(aBoardItem) = "PCB_MODULE_T"
                            THEN AddModule(aBoardItem, aMode) ELSE m_Modules
            /\ m_ZoneDescriptorList' = IF Type(aBoardItem) = "PCB_ZONE_AREA_T"
                                       THEN Append(m_ZoneDescriptorList, aBoardItem)
                                       ELSE m_ZoneDescriptorList
            /\ geom' = IF aBoardItem \in DOMAIN EditorCatalog
                       THEN geom @@ (aBoardItem :> EditorCatalog[aBoardItem]) ELSE geom
            /\ mods' = IF aBoardItem \in ModuleIds
                       THEN mods @@ (aBoardItem :> ModuleCatalog[aBoardItem]) ELSE mods
            /\ padcode' = [p \in AllPads |->
                              IF p \in Range(Pads(aBoardItem)) /\ aBoardItem \in ModuleIds
                              THEN 0 ELSE padcode[p]]
            /\ conn' = ConnAdd(conn, aBoardItem)
    /\ res' = [op |-> "Add", item |-> aBoardItem, was |-> Containers]
    /\ UNCHANGED <<busy, m_NetInfo>>

\* mutant of RemoveItem: a footprint is taken out of the index and stays in
\* m_Modules
RemoveItem_KeepsModule(aBoardItem) ==
    /\ IF Type(aBoardItem) \notin ContainerTypes
       THEN UNCHANGED <<m_Track, m_Modules, m_ZoneDescriptorList, busy, geom, mods>>
       ELSE /\ aBoardItem \in OnBoard
            /\ m_Track' = Without(m_Track, aBoardItem)
            /\ m_Modules' = m_Modules
            /\ m_ZoneDescriptorList' = Without(m_ZoneDescriptorList, aBoardItem)
            /\ busy' = busy \ {aBoardItem}
            /\ geom' = Drop(geom, aBoardItem)
            /\ mods' = IF aBoardItem \in Range(m_Modules) THEN mods
                       ELSE Drop(mods, aBoardItem)
    /\ conn' = ConnRemove(conn, aBoardItem)
    /\ UNCHANGED <<padcode, m_NetInfo>>

\* what Remove does to the board.  An item of a type without a case is
\* unlinked from nothing, and the call on the index behind the switch is made
\* for it as for any other item.  An item of the board is unlinked and then
\* disposed of by the caller
RemoveItem(aBoardItem) ==
    /\ IF Type(aBoardItem) \notin ContainerTypes
       THEN UNCHANGED <<m_Track, m_Modules, m_ZoneDescriptorList, busy, geom, mods>>
       ELSE /\ aBoardItem \in OnBoard
            /\ m_Track' = Without(m_Track, aBoardItem)
            /\ m_Modules' = Without(m_Modules, aBoardItem)
            /\ m_ZoneDescriptorList' = Without(m_ZoneDescriptorList, aBoardItem)
            /\ busy' = busy \ {aBoardItem}
            /\ geom' = Drop(geom, aBoardItem)
            /\ mods' = Drop(mods, aBoardItem)
    /\ conn' = ConnRemove(conn, aBoardItem)
    /\ UNCHANGED <<padcode, m_NetInfo>>

Remove(aBoardItem) ==
    /\ Idle
    /\ RemoveItem(aBoardItem)
    /\ res' = [op |-> "Remove", item |-> aBoardItem]

\* Remove( x ) called right after Add( x ) returned; res keeps the containers
\* as they were before the Add
RemoveAdded ==
    /\ res.op = "Add"
    /\ RemoveItem(res.item)
    /\ res' = [op |-> "RemoveAdded", item |-> res.item, was |-> res.was]

Return ==
    /\ ~Idle
    /\ res' = [op |-> "idle"]
    /\ UNCHANGED <<m_Track, geom, busy, m_Modules, mods, padcode,
                   m_ZoneDescriptorList, m_NetInfo, conn>>

(***************************************************************************)
(* Lock points.                                                            *)
(***************************************************************************)
\* KiROUND( n / d ): the quotient rounded to the nearest integer, halves away
\* from zero
KiROUND(n, d) ==
    LET an == IF n < 0 THEN -n ELSE n
        ad == IF d < 0 THEN -d ELSE d
        q  == (2 * an + ad) \div (2 * ad)
    IN IF (n < 0) = (d < 0) THEN q ELSE -q

\* the point CreateLockPoint breaks aSegment at
LockPointOf(aPosition, aSegment) ==
    LET s     == geom[aSegment].start
        delta == <<geom[aSegment].end[1] - s[1], geom[aSegment].end[2] - s[2]>>
        rel   == <<aPosition[1] - s[1], aPosition[2] - s[2]>>
        lockPoint == IF delta[1] = 0 THEN <<0, rel[2]>>
                     ELSE <<rel[1], KiROUND(rel[1] * delta[2], delta[1])>>
    IN <<lockPoint[1] + s[1], lockPoint[2] + s[2]>>

\* BOARD::GetPad( TRACK*, ENDPOINT_T ) for an end point on one layer
GetPadAtEnd(aPosition, aLayer) == FirstPad(aPosition, {aLayer})

CreateLockPoint(aPosition, aSegment, hasList) ==
    /\ Idle
    /\ aSegment \in Range(m_Track)
    /\ IF geom[aSegment].start = aPosition \/ geom[aSegment].end = aPosition
       THEN /\ res' = [op |-> "CreateLockPoint", aSegment |-> aSegment,
                       aPositionIn |-> aPosition, aPosition |-> aPosition,
                       ret |-> NULL, aList |-> <<>>]
            /\ UNCHANGED <<m_Track, geom, busy>>
       ELSE IF geom[aSegment].type = "PCB_VIA_T"
       THEN /\ res' = [op |-> "CreateLockPoint", aSegment |-> aSegment,
                       aPositionIn |-> aPosition, aPosition |-> geom[aSegment].start,
                       ret |-> aSegment, aList |-> <<>>]
            /\ UNCHANGED <<m_Track, geom, busy>>
       ELSE LET lockPoint == LockPointOf(aPosition, aSegment)
                newTrack  == FirstFree(NewTrackIds, DOMAIN geom)
                pad       == GetPadAtEnd(lockPoint, geom[aSegment].layer)
            IN /\ newTrack # NULL
               /\ m_Track' = InsertBefore(m_Track, newTrack, NextIn(m_Track, aSegment))
               /\ geom' =
                     [geom EXCEPT ![aSegment] =
                         [@ EXCEPT !.end = lockPoint,
                                   !.endItem = IF pad # NULL THEN pad ELSE newTrack,
                                   !.state = IF pad # NULL THEN @ \cup {"END_ONPAD"}
                                             ELSE @ \ {"END_ONPAD"}]]
                     @@ (newTrack :>
                         [geom[aSegment] EXCEPT
                             !.start = lockPoint,
                             !.startItem = IF pad # NULL THEN pad ELSE aSegment,
                             !.state = IF pad # NULL THEN @ \cup {"BEGIN_ONPAD"}
                                       ELSE @ \ {"BEGIN_ONPAD"}])
               /\ busy' = IF aSegment \in busy THEN busy \cup {newTrack} ELSE busy
               /\ res' = [op |-> "CreateLockPoint", aSegment |-> aSegment,
                          aPositionIn |-> aPosition, aPosition |-> lockPoint,
                          ret |-> newTrack,
                          aList |-> IF hasList
                                    THEN <<[item |-> newTrack, status |-> "UR_NEW"],
                                           [item |-> aSegment, status |-> "UR_CHANGED"]>>
                                    ELSE <<>>]
    /\ UNCHANGED <<m_Modules, mods, padcode, m_ZoneDescriptorList, m_NetInfo, conn>>

(***************************************************************************)
(* Zone outlines made by the board.                                        *)
(***************************************************************************)
\* m_ZoneDescriptorList after InsertArea put new_area behind index aAreaIdx
InsertAreaAt(new_area, aAreaIdx) ==
    IF aAreaIdx < Len(m_ZoneDescriptorList) - 1
    THEN SubSeq(m_ZoneDescriptorList, 1, aAreaIdx + 1) \o <<new_area>>
         \o SubSeq(m_ZoneDescriptorList, aAreaIdx + 2, Len(m_ZoneDescriptorList))
    ELSE Append(m_ZoneDescriptorList, new_area)

InsertArea(aNetcode, aAreaIdx, aLayer, aCorner) ==
    /\ Idle
    /\ LET new_area == FirstFree(NewZoneIds, DOMAIN geom)
       IN /\ new_area # NULL
          /\ geom' = geom @@ (new_area :> Zone(aNetcode, aLayer, aCorner))
          /\ m_ZoneDescriptorList' = InsertAreaAt(new_area, aAreaIdx)
          /\ res' = [op |-> "InsertArea", aNetcode |-> aNetcode, aAreaIdx |-> aAreaIdx,
                     ret |-> new_area, aNewZonesList |-> <<>>]
    /\ UNCHANGED <<m_Track, busy, m_Modules, mods, padcode, m_NetInfo, conn>>

AddArea(hasList, aNetcode, aLayer, aStartPointPosition) ==
    /\ Idle
    /\ LET new_area == FirstFree(NewZoneIds, DOMAIN geom)
       IN /\ new_area # NULL
          /\ geom' = geom @@ (new_area :> Zone(aNetcode, aLayer, aStartPointPosition))
          /\ m_ZoneDescriptorList' =
                InsertAreaAt(new_area, Len(m_ZoneDescriptorList) - 1)
          /\ res' = [op |-> "AddArea", aNetcode |-> aNetcode,
                     aAreaIdx |-> Len(m_ZoneDescriptorList) - 1, ret |-> new_area,
                     aNewZonesList |-> IF hasList
                                       THEN <<[item |-> new_area, status |-> "UR_NEW"]>>
                                       ELSE <<>>]
    /\ UNCHANGED <<m_Track, busy, m_Modules, mods, padcode, m_NetInfo, conn>>

\* BOARD::FindNet( int ) returns a net: the code is that of net 0 or of a net
\* of the registry (the last valid code is the net count less one)
IsRegistered(registry, aNetcode) == aNetcode \in 0..(Len(registry) - 1)

IsOnCopperLayer(area) == geom[area].layer \in Layers

\* the net code SetAreasNetCodesFromNetNames leaves on the zone outline
AreaNetCode(area) ==
    IF ~IsOnCopperLayer(area) THEN 0
    ELSE IF geom[area].net # 0
    THEN IF IsRegistered(m_NetInfo, geom[area].net) THEN geom[area].net ELSE -1
    ELSE geom[area].net

\* the zone outlines SetAreasNetCodesFromNetNames counts as errors
AreaErrors ==
    {ii \in 1..Len(m_ZoneDescriptorList) :
        /\ IsOnCopperLayer(m_ZoneDescriptorList[ii])
        /\ geom[m_ZoneDescriptorList[ii]].net # 0
        /\ ~IsRegistered(m_NetInfo, geom[m_ZoneDescriptorList[ii]].net)}

SetAreasNetCodesFromNetNames ==
    /\ Idle
    /\ geom' = [x \in DOMAIN geom |->
                   IF x \in Range(m_ZoneDescriptorList)
                   THEN [geom[x] EXCEPT !.net = AreaNetCode(x)] ELSE geom[x]]
    /\ res' = [op |-> "SetAreasNetCodesFromNetNames",
               error_count |-> Cardinality(AreaErrors)]
    /\ UNCHANGED <<m_Track, busy, m_Modules, mods, padcode, m_ZoneDescriptorList,
                   m_NetInfo, conn>>

(***************************************************************************)
(* Netlist reconciliation.  A netlist component carries its reference, its *)
(* time stamp, its footprint id, its value, whether its footprint was      *)
(* loaded (GetModule() != NULL) and its table of pins and net names.  The  *)
(* running state of ReplaceNetlist is a record st of the board fields it   *)
(* changes, the entries sent to the reporter, the new footprints, the      *)
(* footprints replaced and the log of the steps taken.                     *)
(***************************************************************************)
\* NETINFO_LIST::GetNetItem( name ) finds a net of that name
HasNet(registry, aNetname) == \E i \in 1..Len(registry) : registry[i] = aNetname

\* the code of the net FindNet( name ) returns: the first of that name
FindNet(registry, aNetname) ==
    (CHOOSE i \in 1..Len(registry) :
        registry[i] = aNetname /\ \A j \in 1..(i - 1) : registry[j] # aNetname) - 1

\* D_PAD::GetNetname through the pad's net code
GetNetname(registry, codes, pad) == registry[codes[pad] + 1]

FindModuleByReference(modules, attrs, aReference) ==
    LET hits == SelectSeq(modules, LAMBDA m : attrs[m].reference = aReference)
    IN IF hits = <<>> THEN NULL ELSE Head(hits)

FindModule(modules, attrs, aRefOrTimeStamp, aSearchByTimeStamp) ==
    IF aSearchByTimeStamp
    THEN LET hits == SelectSeq(modules, LAMBDA m : attrs[m].path = aRefOrTimeStamp)
         IN IF hits = <<>> THEN NULL ELSE Head(hits)
    ELSE FindModuleByReference(modules, attrs, aRefOrTimeStamp)

\* COMPONENT::GetNet( pin name ): the first entry for the pin; the empty
\* net, which is not valid, when the component has none
GetNet(component, aPinName) ==
    LET hits == SelectSeq(component.nets, LAMBDA n : n.pin = aPinName)
    IN IF hits = <<>> THEN [pin |-> "", name |-> ""] ELSE Head(hits)

\* COMPONENT_NET::IsValid
IsValid(net) == net.pin # ""

\* MODULE::FindPadByName
FindPadByName(footprint, aPadName) ==
    LET hits == SelectSeq(Pads(footprint), LAMBDA p : PadInfo[p].name = aPadName)
    IN IF hits = <<>> THEN NULL ELSE Head(hits)

\* BOARD::IsEmpty: no drawing, footprint, track or zone segment
IsEmpty == m_Modules = <<>> /\ m_Track = <<>>

\* centre of the page
PageCentre == <<10, 10>>

\* where new footprints are put: the board has no edge drawing, so the
\* default point when it is not empty
bestPosition == IF IsEmpty THEN PageCentre ELSE <<0, 0>>

Report(st, aReporter, severity, text, about) ==
    IF aReporter
    THEN [st EXCEPT !.report = Append(@, [severity |-> severity, text |-> text,
                                            about |-> about])]
    ELSE st

\* new MODULE( *component->GetModule() ): the footprint loaded for the
\* component carries the component's reference, value, footprint id and path
ModuleCopy(component, pos) ==
    [reference |-> component.reference, path |-> component.timeStamp,
     fpid |-> component.fpid, value |-> component.value, locked |-> FALSE, pos |-> pos]

\* the pad has a net in the netlist and another one on the board
changePadNet(opt, pad, net, st) ==
    Local(Report(st, opt.reporter, "RPT_ACTION", "Changing component pin net name", pad),
          LAMBDA r1 :
        IF opt.dryRun THEN r1
        ELSE Local(IF HasNet(r1.m_NetInfo, net.name) THEN r1.m_NetInfo
                   ELSE Append(r1.m_NetInfo, net.name),
                   LAMBDA registry :
                 [r1 EXCEPT
                     !.m_NetInfo = registry,
                     !.conn = (@ \ {pad}) \cup {pad},
                     !.padcode = [@ EXCEPT ![pad] = FindNet(registry, net.name)],
                     !.log = @ \o (IF HasNet(r1.m_NetInfo, net.name) THEN <<>>
                                   ELSE <<"AppendNet">>)
                               \o <<"m_connectivity->Remove", "SetNetCode",
                                    "m_connectivity->Add">>]))

\* the pad has no net in the netlist
clearPadNet(opt, pad, netname, st) ==
    Local(Report(st, opt.reporter /\ netname # "", "RPT_ACTION",
                 "Clearing component pin net name", pad),
          LAMBDA r1 :
        IF opt.dryRun THEN r1
        ELSE [r1 EXCEPT !.conn = @ \ {pad},
                        !.padcode = [@ EXCEPT ![pad] = 0],
                        !.log = @ \o <<"m_connectivity->Remove", "SetNetCode">>])

\* one pad of the footprint: clear or change its net
padStep(component, opt, pad, st) ==
    Local(GetNet(component, PadInfo[pad].name), LAMBDA net :
        Local(GetNetname(st.m_NetInfo, st.padcode, pad), LAMBDA netname :
            IF ~IsValid(net) THEN clearPadNet(opt, pad, netname, st)
            ELSE IF net.name = netname THEN st
            ELSE changePadNet(opt, pad, net, st)))

RECURSIVE padLoop(_, _, _, _, _)
\* update the nets of the pads of the component's footprint
padLoop(component, opt, footprint, i, st) ==
    IF i > Len(Pads(footprint)) THEN st
    ELSE Local(padStep(component, opt, Pads(footprint)[i], st),
               LAMBDA r : padLoop(component, opt, footprint, i + 1, r))

\* Add( footprint, ADD_APPEND ) and m_connectivity->Add( footprint ) for the
\* copy of the component's footprint
addNewFootprint(component, position, footprint, st) ==
    [st EXCEPT
        !.mods = @ @@ (footprint :> ModuleCopy(component, position)),
        !.padcode = [p \in AllPads |-> IF p \in Range(Pads(footprint)) THEN 0 ELSE @[p]],
        !.newFootprints = Append(@, footprint),
        !.m_Modules = Append(@, footprint),
        !.conn = ConnAdd(ConnAdd(@, footprint), footprint),
        !.log = @ \o <<"Add", "m_connectivity->Add">>]

\* no footprint on the board for the component: add a copy of its footprint
newComponent(component, opt, position, st) ==
    Local(Report(st, opt.reporter,
                 IF component.module THEN "RPT_ACTION" ELSE "RPT_ERROR",
                 IF component.module THEN "Adding new component"
                 ELSE "Cannot add new component due to missing footprint",
                 component.reference),
          LAMBDA r1 :
        Local(FirstFree(NewModuleIds, DOMAIN r1.mods), LAMBDA footprint :
            IF opt.dryRun \/ ~component.module THEN r1
            ELSE IF footprint = NULL THEN [r1 EXCEPT !.overflow = TRUE]
            ELSE Local(addNewFootprint(component, position, footprint, r1),
                       LAMBDA r2 : padLoop(component, opt, footprint, 1, r2))))

\* MODULE::CopyNetlistSettings for the pads: a pad of the new footprint takes
\* the net code of the old footprint's pad of the same name
CopyPadNets(codes, footprint, newFootprint) ==
    [p \in AllPads |->
        IF p \in Range(Pads(newFootprint))
        THEN IF FindPadByName(footprint, PadInfo[p].name) # NULL
             THEN codes[FindPadByName(footprint, PadInfo[p].name)]
             ELSE 0
        ELSE codes[p]]

\* the footprint of the component has another footprint id: put a copy of
\* the component's footprint in its place
replaceFootprint(component, opt, footprint, newFootprint, st) ==
    Local(IF opt.findByTimeStamp
          THEN [ModuleCopy(component, st.mods[footprint].pos)
                    EXCEPT !.reference = st.mods[footprint].reference]
          ELSE [ModuleCopy(component, st.mods[footprint].pos)
                    EXCEPT !.path = st.mods[footprint].path],
          LAMBDA made :
        [st EXCEPT
            !.mods = @ @@ (newFootprint :> made),
            !.padcode = CopyPadNets(@, footprint, newFootprint),
            !.m_Modules = Append(Without(@, footprint), newFootprint),
            !.conn = ConnAdd(ConnAdd(ConnRemove(ConnRemove(@, footprint), footprint),
                                     newFootprint),
                             footprint),
            !.replaced = Append(@, [old |-> footprint, new |-> newFootprint]),
            !.log = @ \o <<"m_connectivity->Remove", "Remove", "Add",
                           "m_connectivity->Add">>])

\* a field test that stores the new value in a dry run too
updateField_InDryRun(opt, footprint, field, wanted, severity, text, st) ==
    IF st.mods[footprint][field] = wanted THEN st
    ELSE Local(Report(st, opt.reporter, severity, text, footprint), LAMBDA r :
             [r EXCEPT !.mods[footprint][field] = wanted])

\* the test for one changed field (reference, value or path) of the footprint
updateField(opt, footprint, field, wanted, severity, text, st) ==
    IF st.mods[footprint][field] = wanted THEN st
    ELSE Local(Report(st, opt.reporter, severity, text, footprint), LAMBDA r :
             IF opt.dryRun THEN r
             ELSE [r EXCEPT !.mods[footprint][field] = wanted])

\* the tests for a changed reference, value and path
updateFields(component, opt, footprint, st) ==
    Local(updateField(opt, footprint, "reference", component.reference, "RPT_ACTION",
                      "Changing component reference", st),
          LAMBDA r1 :
        Local(updateField(opt, footprint, "value", component.value, "RPT_ACTION",
                          "Changing component value", r1),
              LAMBDA r2 :
            updateField(opt, footprint, "path", component.timeStamp, "RPT_INFO",
                        "Changing component path", r2)))

\* the footprint id of the component differs and footprints may be replaced
reportReplace(component, opt, footprint, st) ==
    Report(st, opt.reporter,
           IF component.module THEN "RPT_ACTION" ELSE "RPT_ERROR",
           IF component.module THEN "Replacing component footprint"
           ELSE "Cannot replace component due to missing footprint",
           footprint)

\* a footprint of the board matches the component
existingComponent(component, opt, footprint, st) ==
    Local(component.fpid # "" /\ st.mods[footprint].fpid # component.fpid
          /\ opt.replaceFootprints,
          LAMBDA changed :
        Local(IF changed THEN reportReplace(component, opt, footprint, st) ELSE st,
              LAMBDA r1 :
            Local(FirstFree(NewModuleIds, DOMAIN r1.mods), LAMBDA newFootprint :
                IF changed /\ ~opt.dryRun /\ component.module
                THEN IF newFootprint = NULL THEN [r1 EXCEPT !.overflow = TRUE]
                     ELSE Local(replaceFootprint(component, opt, footprint,
                                                 newFootprint, r1),
                                LAMBDA r2 :
                              Local(updateFields(component, opt, newFootprint, r2),
                                    LAMBDA r3 :
                                  padLoop(component, opt, newFootprint, 1, r3)))
                ELSE Local(updateFields(component, opt, footprint, r1), LAMBDA r3 :
                         padLoop(component, opt, footprint, 1, r3)))))

\* one component of the netlist
componentStep(component, opt, position, st) ==
    Local(Report(st, opt.reporter, "RPT_INFO", "Checking netlist component footprint",
                 component.reference),
          LAMBDA r0 :
        Local(IF opt.findByTimeStamp
              THEN FindModule(r0.m_Modules, r0.mods, component.timeStamp, TRUE)
              ELSE FindModule(r0.m_Modules, r0.mods, component.reference, FALSE),
              LAMBDA footprint :
            IF footprint = NULL THEN newComponent(component, opt, position, r0)
            ELSE existingComponent(component, opt, footprint, r0)))

RECURSIVE componentLoop(_, _, _, _, _)
\* a loop that ends at the first component whose footprint is missing
componentLoop_Abort(aNetlist, opt, position, i, st) ==
    IF i > Len(aNetlist) \/ st.overflow THEN st
    ELSE IF ~aNetlist[i].module
         THEN componentStep(aNetlist[i], opt, position, st)
         ELSE Local(componentStep(aNetlist[i], opt, position, st),
                    LAMBDA r : componentLoop(aNetlist, opt, position, i + 1, r))

\* the loop over the components of the netlist
componentLoop(aNetlist, opt, position, i, st) ==
    IF i > Len(aNetlist) \/ st.overflow THEN st
    ELSE Local(componentStep(aNetlist[i], opt, position, st),
               LAMBDA r : componentLoop(aNetlist, opt, position, i + 1, r))

\* NETLIST::GetComponentByTimeStamp / GetComponentByReference found one
InNetlist(aNetlist, opt, attrs) ==
    \E i \in 1..Len(aNetlist) :
        IF opt.findByTimeStamp THEN aNetlist[i].timeStamp = attrs.path
        ELSE aNetlist[i].reference = attrs.reference

\* a footprint that is not in the netlist
deleteExtra(opt, module, st) ==
    Local(Report(st, opt.reporter, "RPT_ACTION", "Removing unused component", module),
          LAMBDA r1 :
        IF opt.dryRun THEN r1
        ELSE [r1 EXCEPT !.conn = ConnRemove(@, module),
                        !.m_Modules = Without(@, module),
                        !.mods = Drop(@, module),
                        !.log = @ \o <<"m_connectivity->Remove", "DeleteStructure">>])

RECURSIVE deleteExtraLoop(_, _, _, _, _)
\* remove the footprints that are not in the netlist
deleteExtraLoop(aNetlist, opt, modules, i, st) ==
    IF i > Len(modules) THEN st
    ELSE IF st.mods[modules[i]].locked \/ InNetlist(aNetlist, opt, st.mods[modules[i]])
         THEN deleteExtraLoop(aNetlist, opt, modules, i + 1, st)
         ELSE Local(deleteExtra(opt, modules[i], st),
                    LAMBDA r : deleteExtraLoop(aNetlist, opt, modules, i + 1, r))

\* connAlgo->PadList(): the pads registered in the index
PadList(index) == index \cap AllPads

\* CONNECTIVITY_DATA::GetPadCount( net )
GetPadCount(index, codes, aNet) ==
    Cardinality({p \in PadList(index) : codes[p] = aNet})

\* BOARD::GetNodesCount and BOARD::GetPadCount(): the number of pads the index
\* holds, all nets together
GetNodesCount == Cardinality(PadList(conn))

\* the pads of the index that are alone on net i, no zone of the index
\* being on it
SinglePads(i, st) ==
    {p \in PadList(st.conn) :
        /\ st.padcode[p] = i
        /\ i > 0
        /\ GetPadCount(st.conn, st.padcode, i) = 1
        /\ ~\E z \in st.conn \cap DOMAIN geom :
              geom[z].type = "PCB_ZONE_AREA_T" /\ geom[z].net = i}

\* the pad alone on its net leaves the index and its net
removeSinglePad(opt, pad, st) ==
    Local(Report(st, opt.reporter, "RPT_ACTION", "Remove single pad net", pad),
          LAMBDA r1 :
        [r1 EXCEPT !.conn = @ \ {pad},
                   !.padcode = [@ EXCEPT ![pad] = 0],
                   !.log = @ \o <<"m_connectivity->Remove", "SetNetCode">>])

RECURSIVE singlePadLoop(_, _, _)
\* remove the single pad nets, net code by net code
singlePadLoop(opt, i, st) ==
    IF i >= Len(st.m_NetInfo) THEN st
    ELSE Local(SinglePads(i, st), LAMBDA single :
             IF single = {} THEN singlePadLoop(opt, i + 1, st)
             ELSE Local(removeSinglePad(opt, CHOOSE p \in single : TRUE, st),
                        LAMBDA r : singlePadLoop(opt, i + 1, r)))

RECURSIVE pinLoop(_, _, _, _)
\* every pin of the component must be a pad of its footprint
pinLoop(component, footprint, jj, st) ==
    IF jj > Len(component.nets) THEN st
    ELSE Local(IF FindPadByName(footprint, component.nets[jj].pin) # NULL THEN st
               ELSE Report(st, TRUE, "RPT_ERROR", "Component pad not found in footprint",
                           component.reference),
               LAMBDA r : pinLoop(component, footprint, jj + 1, r))

RECURSIVE verifyLoop(_, _, _)
verifyLoop(aNetlist, i, st) ==
    IF i > Len(aNetlist) THEN st
    ELSE Local(FindModuleByReference(st.m_Modules, st.mods, aNetlist[i].reference),
               LAMBDA footprint :
             Local(IF footprint = NULL THEN st
                   ELSE pinLoop(aNetlist[i], footprint, 1, st),
                   LAMBDA r : verifyLoop(aNetlist, i + 1, r)))

RECURSIVE deadNetLoop(_, _)
\* warn about the copper zones whose net has no pad
deadNetLoop(ii, st) ==
    IF ii > Len(m_ZoneDescriptorList) THEN st
    ELSE Local(IF GetPadCount(st.conn, st.padcode,
                              geom[m_ZoneDescriptorList[ii]].net) = 0
               THEN Report(st, TRUE, "RPT_WARNING",
                           "Copper zone: net has no pads connected",
                           m_ZoneDescriptorList[ii])
               ELSE st,
               LAMBDA r : deadNetLoop(ii + 1, r))

\* the part of ReplaceNetlist after the loop over the components
ReplaceNetlistTail(aNetlist, opt, st1) ==
    Local(IF opt.deleteExtraFootprints
          THEN deleteExtraLoop(aNetlist, opt, st1.m_Modules, 1, st1)
          ELSE st1,
          LAMBDA st2 :
        Local([st2 EXCEPT !.log = Append(@, "BuildListOfNets")], LAMBDA st3 :
            Local(IF opt.aDeleteSinglePadNets /\ ~opt.dryRun
                  THEN singlePadLoop(opt, 0, st3) ELSE st3,
                  LAMBDA st4 :
                Local(IF opt.reporter THEN verifyLoop(aNetlist, 1, st4) ELSE st4,
                      LAMBDA st5 :
                    Local(IF opt.reporter THEN deadNetLoop(1, st5) ELSE st5,
                          LAMBDA st6 :
                        [st6 EXCEPT !.log = Append(@, "RecalculateRatsnest")])))))

\* opt: the netlist's flags (findByTimeStamp, replaceFootprints,
\* deleteExtraFootprints, dryRun), aDeleteSinglePadNets and whether a
\* reporter is given
ReplaceNetlistResult(aNetlist, opt) ==
    Local(componentLoop(aNetlist, opt, bestPosition, 1,
              [m_Modules |-> m_Modules, mods |-> mods, padcode |-> padcode,
               conn |-> conn, m_NetInfo |-> m_NetInfo, report |-> <<>>,
               newFootprints |-> <<>>, replaced |-> <<>>, log |-> <<>>,
               overflow |-> FALSE]),
          LAMBDA st1 :
        IF st1.overflow THEN st1 ELSE ReplaceNetlistTail(aNetlist, opt, st1))

ReplaceNetlist(aNetlist, opt) ==
    /\ Idle
    /\ \E r \in {ReplaceNetlistResult(aNetlist, opt)} :
          /\ ~r.overflow
          /\ m_Modules' = r.m_Modules
          /\ mods' = r.mods
          /\ padcode' = r.padcode
          /\ m_NetInfo' = r.m_NetInfo
          /\ conn' = r.conn
          /\ res' = [op |-> "ReplaceNetlist", aNetlist |-> aNetlist, opt |-> opt,
                     report |-> r.report, aNewFootprints |-> r.newFootprints,
                     replaced |-> r.replaced, log |-> r.log]
    /\ UNCHANGED <<m_Track, geom, busy, m_ZoneDescriptorList>>

(***************************************************************************)
(* Queries.                                                                *)
(***************************************************************************)
MarkTrace(aTrace, hasCount, hasLength, aReorder) ==
    /\ Idle
    /\ \E r \in {MarkTraceResult(aTrace, hasCount, hasLength, aReorder)} :
          /\ m_Track' = r.m_Track
          /\ busy' = r.busy
          /\ res' = [op |-> "MarkTrace", aTrace |-> aTrace, hasCount |-> hasCount,
                     hasLength |-> hasLength, aReorder |-> aReorder, ret |-> r.ret,
                     count |-> r.count, traceLength |-> r.traceLength,
                     padToDie |-> r.padToDie, marked |-> r.marked, early |-> r.early]
    /\ UNCHANGED <<geom, m_Modules, mods, padcode, m_ZoneDescriptorList, m_NetInfo, conn>>

\* mutant of TracksInNetBetweenPoints: the walk takes the tracks it returns
\* out of the board's own list instead of out of its copy
TracksInNetBetweenPoints_OnBoardList(aStartPos, aGoalPos, aNetCode) ==
    /\ Idle
    /\ \E r \in {TracksInNetBetweenPointsResult(aStartPos, aGoalPos, aNetCode)} :
          /\ res' = [op |-> "TracksInNetBetweenPoints", aStartPos |-> aStartPos,
                     aGoalPos |-> aGoalPos, aNetCode |-> aNetCode, thrown |-> r.thrown,
                     tracks |-> r.tracks, problems |-> r.problems,
                     candidates |-> r.candidates]
          /\ m_Track' = SelectSeq(m_Track, LAMBDA t : t \notin Range(r.tracks))
    /\ UNCHANGED <<geom, busy, m_Modules, mods, padcode,
                   m_ZoneDescriptorList, m_NetInfo, conn>>

TracksInNetBetweenPoints(aStartPos, aGoalPos, aNetCode) ==
    /\ Idle
    /\ \E r \in {TracksInNetBetweenPointsResult(aStartPos, aGoalPos, aNetCode)} :
          res' = [op |-> "TracksInNetBetweenPoints", aStartPos |-> aStartPos,
                  aGoalPos |-> aGoalPos, aNetCode |-> aNetCode, thrown |-> r.thrown,
                  tracks |-> r.tracks, problems |-> r.problems,
                  candidates |-> r.candidates]
    /\ UNCHANGED <<m_Track, geom, busy, m_Modules, mods, padcode,
                   m_ZoneDescriptorList, m_NetInfo, conn>>

(***************************************************************************)
(* The sorted list of net names.  A net is held by its code; its name is   *)
(* m_NetInfo[code + 1].                                                    *)
(***************************************************************************)
\* the net names of the netlists, in the order of wxString::operator<
Alphabet == <<"", "GND", "VCC">>

NameLess(a, b) == IndexOf(Alphabet, a) < IndexOf(Alphabet, b)

\* sort nets by alphabetic names
sortNetsByNames(a, b) == NameLess(m_NetInfo[a + 1], m_NetInfo[b + 1])

\* mutant of sortNetsByNodes: the smaller pad count first
sortNetsByNodes_Ascending(a, b) ==
    IF GetPadCount(conn, padcode, a) = GetPadCount(conn, padcode, b)
    THEN NameLess(m_NetInfo[a + 1], m_NetInfo[b + 1])
    ELSE GetPadCount(conn, padcode, a) < GetPadCount(conn, padcode, b)

\* sort nets by decreasing pad count, for the same pad count by alphabetic
\* names
sortNetsByNodes(a, b) ==
    IF GetPadCount(conn, padcode, a) = GetPadCount(conn, padcode, b)
    THEN NameLess(m_NetInfo[a + 1], m_NetInfo[b + 1])
    ELSE GetPadCount(conn, padcode, b) < GetPadCount(conn, padcode, a)

\* the comparison handed to sort
NetLess(a, b, aSortbyPadsCount) ==
    IF aSortbyPadsCount THEN sortNetsByNodes(a, b) ELSE sortNetsByNames(a, b)

RECURSIVE sort(_, _)
\* sort( netBuffer.begin(), netBuffer.end(), comparison ): every net is put
\* in front of the first sorted one it is less than
sort(netBuffer, aSortbyPadsCount) ==
    IF netBuffer = <<>> THEN <<>>
    ELSE Local(sort(Tail(netBuffer), aSortbyPadsCount), LAMBDA sorted :
             Local(SelectSeq(sorted,
                             LAMBDA n : ~NetLess(Head(netBuffer), n, aSortbyPadsCount)),
                   LAMBDA before :
                 before \o <<Head(netBuffer)>>
                 \o SubSeq(sorted, Len(before) + 1, Len(sorted))))

\* the nets of the registry with a code above 0, in registry order
NetBuffer == [i \in 1..(Len(m_NetInfo) - 1) |-> i]

SortedNetnamesList(aNames, aSortbyPadsCount) ==
    /\ Idle
    /\ IF Len(m_NetInfo) = 0
       THEN res' = [op |-> "SortedNetnamesList", aNamesIn |-> aNames,
                    aSortbyPadsCount |-> aSortbyPadsCount, aNames |-> aNames, ret |-> 0]
       ELSE \E netBuffer \in {sort(NetBuffer, aSortbyPadsCount)} :
               res' = [op |-> "SortedNetnamesList", aNamesIn |-> aNames,
                       aSortbyPadsCount |-> aSortbyPadsCount,
                       aNames |-> aNames \o [ii \in 1..Len(netBuffer) |->
                                                 m_NetInfo[netBuffer[ii] + 1]],
                       ret |-> Len(netBuffer)]
    /\ UNCHANGED <<m_Track, geom, busy, m_Modules, mods, padcode,
                   m_ZoneDescriptorList, m_NetInfo, conn>>

(***************************************************************************)
(* The two walks, one pass of their loop at a time.  res holds the locals  *)
(* of the running walk and counts its passes.                              *)
(***************************************************************************)
\* MarkTrace calls chainMarkedSegments from an end of the flagged start
\* segment: the first call after clearing every flag, the second one with
\* the flags of the first
chainBegin(aTrace, atStart, first) ==
    /\ Idle
    /\ aTrace \in Range(m_Track)
    /\ geom[aTrace].type = "PCB_TRACE_T"
    /\ busy' = (IF first THEN {} ELSE busy) \cup {aTrace}
    /\ res' = [op |-> "chainMarkedSegments",
               aPosition |-> IF atStart THEN geom[aTrace].start ELSE geom[aTrace].end,
               layer_set |-> geom[aTrace].layers, aList |-> <<>>,
               done |-> FALSE, steps |-> 0]
    /\ UNCHANGED <<m_Track, geom, m_Modules, mods, padcode, m_ZoneDescriptorList,
                   m_NetInfo, conn>>

\* one pass of the for( ; ; ) loop of chainMarkedSegments
chainIterate ==
    /\ res.op = "chainMarkedSegments" /\ ~res.done
    /\ \E n \in {chainIteration(res.aPosition, res.layer_set, res.aList, busy)} :
          /\ busy' = n.busy
          /\ res' = [res EXCEPT !.aPosition = n.aPosition, !.layer_set = n.layer_set,
                                !.aList = n.list, !.done = n.done, !.steps = @ + 1]
    /\ UNCHANGED <<m_Track, geom, m_Modules, mods, padcode, m_ZoneDescriptorList,
                   m_NetInfo, conn>>

\* TracksInNetBetweenPoints calls checkConnectedTo for a trace leaving
\* aStart: the part of checkConnectedTo before its loop
checkBegin(aStart, aGoal, aNetCode, aFirstTrack) ==
    /\ Idle
    /\ aFirstTrack \in Range(TracksInNet(aNetCode))
    /\ geom[aFirstTrack].type = "PCB_TRACE_T"
    /\ Touches(aFirstTrack, aStart)
    /\ res' = [op |-> "checkConnectedTo", aList |-> <<aFirstTrack>>,
               in_net |-> removeTrack(TracksInNet(aNetCode), aFirstTrack),
               lset |-> {geom[aFirstTrack].layer},
               next |-> otherEnd(aFirstTrack, aStart),
               aGoal |-> aGoal, aStart |-> aStart, ok |-> FALSE,
               done |-> FALSE, steps |-> 0]
    /\ UNCHANGED <<m_Track, geom, busy, m_Modules, mods, padcode,
                   m_ZoneDescriptorList, m_NetInfo, conn>>

\* one pass of the while loop of checkConnectedTo
checkIterate ==
    /\ res.op = "checkConnectedTo" /\ ~res.done
    /\ \E n \in {checkIteration(res.aList, res.in_net, res.lset, res.next,
                                 res.aGoal, res.aStart)} :
          res' = [res EXCEPT !.aList = n.list, !.in_net = n.in_net, !.lset = n.lset,
                             !.next = n.next, !.ok = n.ok, !.done = n.done,
                             !.steps = @ + 1]
    /\ UNCHANGED <<m_Track, geom, busy, m_Modules, mods, padcode,
                   m_ZoneDescriptorList, m_NetInfo, conn>>

\* a walk is running
Walking == res.op \in {"chainMarkedSegments", "checkConnectedTo"}

(***************************************************************************)
(* Specifications.  The board starts empty (BOARD::BOARD), its registry    *)
(* holding the unconnected net alone, and is built by Add and Remove.      *)
(***************************************************************************)
Init ==
    /\ m_Track = <<>>
    /\ geom = <<>>
    /\ busy = {}
    /\ m_Modules = <<>>
    /\ mods = <<>>
    /\ padcode = [p \in AllPads |-> 0]
    /\ m_ZoneDescriptorList = <<>>
    /\ m_NetInfo = <<"">>
    /\ conn = {}
    /\ res = [op |-> "idle"]

AddModes == {"ADD_APPEND", "ADD_INSERT"}

\* the path check between two points of the chain
QueryStarts == {P0, P1}
QueryGoals == {P1, P2, P3}

NextPath ==
    \/ \E item \in TrackIds \cup ModuleIds, mode \in AddModes : Add(item, mode)
    \/ \E item \in TrackIds \cup ModuleIds : Remove(item)
    \/ \E aStartPos \in QueryStarts, aGoalPos \in QueryGoals :
          TracksInNetBetweenPoints(aStartPos, aGoalPos, 1)
    \/ Return

SpecPath == Init /\ [][NextPath]_vars

\* the track tracer
TraceItems == {T1, T2, T4, T5, V1, MA}

NextTrace ==
    \/ \E item \in TraceItems, mode \in AddModes : Add(item, mode)
    \/ \E item \in TraceItems : Remove(item)
    \/ \E aTrace \in Range(m_Track) \cup {NULL}, hasCount, hasLength, aReorder \in BOOLEAN :
          MarkTrace(aTrace, hasCount, hasLength, aReorder)
    \/ Return

SpecTrace == Init /\ [][NextTrace]_vars

\* the containers and the connectivity index under every board mutation
BoardItems == {T1, Z1, MA}

\* positions asked of CreateLockPoint: inside T1, above the end of T1, the
\* end of T1
LockPositions == {<<1, 0>>, <<2, 1>>, P1}

Component(reference, timeStamp, fpid, value, module, nets) ==
    [reference |-> reference, timeStamp |-> timeStamp, fpid |-> fpid, value |-> value,
     module |-> module, nets |-> nets]

\* U1 with the library footprint libR, both pins on a net
CompU1R == Component("U1", "/a", "libR", "10k", TRUE,
                     <<[pin |-> "1", name |-> "VCC"], [pin |-> "2", name |-> "GND"]>>)
\* U1 with the footprint MA already has, its pin on a net
CompU1A == Component("U1", "/a", "libA", "22k", TRUE, <<[pin |-> "1", name |-> "VCC"]>>)
\* U9, a component the board has no footprint for, its footprint not loaded
CompU9Missing == Component("U9", "/z", "libR", "1k", FALSE,
                           <<[pin |-> "1", name |-> "VCC"]>>)
\* U9 with its footprint loaded
CompU9 == Component("U9", "/z", "libR", "1k", TRUE, <<[pin |-> "1", name |-> "VCC"]>>)

Netlists == {<<CompU1R>>, <<CompU9Missing, CompU1A>>, <<CompU9>>}

Options(findByTimeStamp, replaceFootprints, deleteExtraFootprints, dryRun, aDeleteSinglePadNets, reporter) ==
    [findByTimeStamp |-> findByTimeStamp, replaceFootprints |-> replaceFootprints,
     deleteExtraFootprints |-> deleteExtraFootprints, dryRun |-> dryRun,
     aDeleteSinglePadNets |-> aDeleteSinglePadNets, reporter |-> reporter]

\* by reference, replacing footprints; the same as a dry run; by time stamp,
\* deleting the footprints not in the netlist; keeping the footprints,
\* deleting the single pad nets, without a reporter
NetlistOptions ==
    {Options(FALSE, TRUE, FALSE, FALSE, FALSE, TRUE),
     Options(FALSE, TRUE, FALSE, TRUE, FALSE, TRUE),
     Options(TRUE, TRUE, TRUE, FALSE, FALSE, TRUE),
     Options(FALSE, FALSE, FALSE, FALSE, TRUE, FALSE)}

NextBoard ==
    \/ \E item \in BoardItems, mode \in AddModes : Add(item, mode)
    \/ \E item \in OnBoard : Remove(item)
    \/ RemoveAdded
    \/ \E aPosition \in LockPositions, aSegment \in Range(m_Track), hasList \in BOOLEAN :
          CreateLockPoint(aPosition, aSegment, hasList)
    \/ \E aAreaIdx \in {-1, 0} : InsertArea(1, aAreaIdx, 0, P0)
    \/ \E hasList \in BOOLEAN : AddArea(hasList, 1, 0, P0)
    \/ \E aNetlist \in Netlists, opt \in NetlistOptions : ReplaceNetlist(aNetlist, opt)
    \/ Return

SpecBoard == Init /\ [][NextBoard]_vars

(***************************************************************************)
(* Claims about the connectivity index (SpecBoard).                        *)
(***************************************************************************)
\* the connectable items the board owns: the tracks, vias and zone outlines
\* of its containers and the pads of its footprints
Owned == Range(m_Track) \cup Range(m_ZoneDescriptorList) \cup Range(GetPads)

\* C3: the index references only items the board owns, and after
\* ReplaceNetlist replaced a footprint the index references the new footprint
\* and no pad of the removed one.  Refuted: ReplaceNetlist registers the
\* removed footprint again after it has taken it off the board.
C3_IndexHoldsOnlyBoardItems ==
    /\ conn \subseteq Owned
    /\ res.op = "ReplaceNetlist" =>
          \A i \in 1..Len(res.replaced) :
              /\ Range(Pads(res.replaced[i].new)) \cap conn # {}
              /\ Range(Pads(res.replaced[i].old)) \cap conn = {}

\* C4: every track, via and zone outline of the board's containers is
\* registered with the index.  Refuted: the segment CreateLockPoint inserts
\* and the outline InsertArea (and AddArea through it) inserts are never
\* registered.
C4_ContainersAreRegistered ==
    (Range(m_Track) \cup Range(m_ZoneDescriptorList)) \subseteq conn

(***************************************************************************)
(* Chains of segments, as the path claims speak of them.                   *)
(***************************************************************************)
\* longest chain looked for between two points
MaxChain == 3

IsQuery == res.op = "TracksInNetBetweenPoints"

BoardTracks == Range(m_Track)

\* the sequences of one to MaxChain different tracks of the board
ChainSeqs ==
    UNION {{q \in [1..n -> BoardTracks] : \A i, j \in 1..n : i # j => q[i] # q[j]} :
           n \in 1..MaxChain}

RECURSIVE Pt(_, _, _)
\* the point reached after the first i segments of q when leaving from a
Pt(q, a, i) == IF i = 0 THEN a ELSE otherEnd(q[i], Pt(q, a, i - 1))

\* q runs from a to b: segments of one net on one layer, each leaving from
\* the point the one before it arrived at
IsChain(q, a, b, net) ==
    /\ \A i \in 1..Len(q) :
          /\ geom[q[i]].type = "PCB_TRACE_T"
          /\ geom[q[i]].net = net
          /\ geom[q[i]].layer = geom[q[1]].layer
          /\ Touches(q[i], Pt(q, a, i - 1))
    /\ Pt(q, a, Len(q)) = b
    /\ \A i \in 0..(Len(q) - 1) : Pt(q, a, i) # b

PadAt(pos) == {p \in Range(GetPads) : GetPosition(p) = pos}

\* the junction after the i-th segment is touched by nothing but the chain
CleanJunction(q, a, i) ==
    /\ PadAt(Pt(q, a, i)) = {}
    /\ \A t \in BoardTracks \ {q[i], q[i + 1]} : ~Touches(t, Pt(q, a, i))

Unbranched(q, a) == \A i \in 1..(Len(q) - 1) : CleanJunction(q, a, i)

\* the unbranched chains between the two points of the last query
QueryChains ==
    {q \in ChainSeqs :
        /\ IsChain(q, res.aStartPos, res.aGoalPos, res.aNetCode)
        /\ Unbranched(q, res.aStartPos)}

(***************************************************************************)
(* Claims about TracksInNetBetweenPoints (SpecPath).                       *)
(***************************************************************************)
\* C1: whenever the board holds an unbranched chain s1..sn from A to B on one
\* layer (and it is the only such chain), TracksInNetBetweenPoints(A, B, net)
\* returns exactly that chain, in order, without throwing, whatever else the
\* net holds.  Refuted: when the net holds nothing but the chain the walk
\* uses up its working list on the last segment and throws "not enough tracks".
C1_ChainIsReturned ==
    IsQuery =>
        \A q \in QueryChains :
            QueryChains = {q} => (~res.thrown /\ res.tracks = q)

\* C5: on the chain T1-T2-T3 from P0 to P3 with the branch T4 leaving P1 (no
\* pad at P1) the query from P0 to P3 throws, and the reason recorded for the
\* one candidate leaving P0 is the junction failure at P1, raised with more
\* than one track found there.
C5_BranchFails ==
    (/\ IsQuery
     /\ res.aStartPos = P0 /\ res.aGoalPos = P3
     /\ {T1, T2, T3, T4} \subseteq BoardTracks
     /\ PadAt(P1) = {})
    => /\ res.thrown
       /\ Len(res.problems) = 1
       /\ res.problems[1].kind = "found tracks intersecting"
       /\ res.problems[1].at = P1
       /\ res.problems[1].found > 1

C5_Witness ==
    /\ IsQuery
    /\ res.aStartPos = P0 /\ res.aGoalPos = P3
    /\ {T1, T2, T3, T4} \subseteq BoardTracks
    /\ PadAt(P1) = {}
    /\ res.thrown

\* the chains from the start of the last query to its goal whose junctions
\* before the k-th are unbranched and whose k-th junction holds a pad on the
\* layer of the segment arriving there
PadBlocked(q, k) ==
    /\ IsChain(q, res.aStartPos, res.aGoalPos, res.aNetCode)
    /\ k \in 1..(Len(q) - 1)
    /\ \A i \in 1..(k - 1) : CleanJunction(q, res.aStartPos, i)
    /\ \E p \in PadAt(Pt(q, res.aStartPos, k)) :
          (PadInfo[p].layers \cap geom[q[k]].layers) # {}

\* the place of candidate t among the candidates of the last query
CandidateIndex(t) == IndexOf(res.candidates, t)

\* C6: a pad exactly at an intermediate junction of the chain, on the layer of
\* the segment arriving there, makes the query fail for that candidate with
\* the intervening-pad reason at that junction, even though the segments go
\* on to the goal; and the pad test is never applied at the goal: no
\* intervening-pad reason names the goal position, and a returned path may
\* end on a pad.
C6_PadBlocks ==
    IsQuery =>
        /\ \A q \in ChainSeqs : \A k \in 1..MaxChain :
              (PadBlocked(q, k) /\ CandidateIndex(q[1]) <= Len(res.problems))
              => /\ res.problems[CandidateIndex(q[1])].kind = "intervening pad"
                 /\ res.problems[CandidateIndex(q[1])].at = Pt(q, res.aStartPos, k)
        /\ \A q \in ChainSeqs : \A k \in 1..MaxChain :
              PadBlocked(q, k) => (~res.thrown => res.tracks[1] # q[1])
        /\ \A i \in 1..Len(res.problems) :
              res.problems[i].kind = "intervening pad" => res.problems[i].at # res.aGoalPos

\* a query stopped by the pad at P1 although T1-T2 runs on to P2
C6_Witness ==
    /\ IsQuery
    /\ \E q \in ChainSeqs : \E k \in 1..MaxChain :
          /\ PadBlocked(q, k)
          /\ Len(q) >= 2
          /\ Unbranched(q, Pt(q, res.aStartPos, 1))
          /\ res.thrown
          /\ res.problems[CandidateIndex(q[1])].kind = "intervening pad"

\* the candidates of a query, read off the board: the segments of the net
\* with an end at the start position, in list order
StartSegments(aStartPos, aNetCode) ==
    SelectSeq(m_Track,
        LAMBDA t : /\ geom[t].type = "PCB_TRACE_T"
                   /\ geom[t].net = aNetCode
                   /\ (geom[t].start = aStartPos \/ geom[t].end = aStartPos))

\* the walk of one candidate on its own
WalkOf(t) ==
    checkConnectedTo(<<>>, TracksInNet(res.aNetCode), res.aGoalPos, res.aStartPos, t)

\* C7: the candidates are the net's segments with an end at the start, tried
\* in list order; the result is the chain of the first candidate whose walk
\* reaches the goal, starting with that candidate and holding nothing of an
\* earlier attempt; when none succeeds the failure holds one reason per
\* candidate, in attempt order.
C7_FirstSuccessOrAllReasons ==
    IsQuery =>
        LET cand == StartSegments(res.aStartPos, res.aNetCode)
            n    == Len(res.problems)
        IN /\ \A i \in 1..n : i <= Len(cand) /\ ~WalkOf(cand[i]).ok
                              /\ res.problems[i] = WalkOf(cand[i]).why
           /\ res.thrown => n = Len(cand) /\ res.tracks = <<>>
           /\ ~res.thrown =>
                 /\ n < Len(cand)
                 /\ WalkOf(cand[n + 1]).ok
                 /\ res.tracks = WalkOf(cand[n + 1]).list
                 /\ res.tracks[1] = cand[n + 1]
                 /\ \A i, j \in 1..Len(res.tracks) : i # j => res.tracks[i] # res.tracks[j]

\* a path returned by the second candidate after the first one failed
C7_Witness ==
    /\ IsQuery
    /\ ~res.thrown
    /\ Len(res.problems) >= 1
    /\ Len(res.tracks) >= 2

\* every candidate failed: two reasons
C7_WitnessAllFail ==
    /\ IsQuery
    /\ res.thrown
    /\ Len(res.problems) >= 2

(***************************************************************************)
(* Claims about MarkTrace (SpecTrace).                                     *)
(***************************************************************************)
IsMark == res.op = "MarkTrace"

\* the flagged tracks and vias of the board
BusyOnBoard == busy \cap BoardTracks

\* the tracks and vias of the board, other than t, with an end at pos within
\* the layer set ls
TouchingAt(t, pos, ls) ==
    {u \in BoardTracks \ {t} : Touches(u, pos) /\ (geom[u].layers \cap ls) # {}}

ViaJoinsT1T5 ==
    /\ {T1, T5, V1} \subseteq BoardTracks
    /\ TouchingAt(V1, P1, Layers) = {T1, T5}
    /\ PadAt(P1) = {}

\* T1 and T5 meet at P1 and nothing else, no via either, touches P1
NoViaBetweenT1T5 ==
    /\ {T1, T5} \subseteq BoardTracks
    /\ {u \in BoardTracks : Touches(u, P1)} = {T1, T5}
    /\ PadAt(P1) = {}

\* C8: with the single through via at the point where two segments on
\* different layers meet, MarkTrace from either segment yields the track of
\* the first segment, the via and the second segment, count 3; once the via
\* is removed, MarkTrace from either segment yields that segment alone,
\* count 1.  Refuted on the count: with aReorder = false and a null
\* aTraceLength the count returned is 1 although three items are flagged.
C8_ViaJoinsAndRemovalSplits ==
    (IsMark /\ res.aTrace \in {T1, T5} /\ res.hasCount) =>
        /\ ViaJoinsT1T5 => (res.marked = {T1, V1, T5} /\ res.count = 3)
        /\ NoViaBetweenT1T5 => (res.marked = {res.aTrace} /\ res.count = 1)

\* C9: MarkTrace started on a via touched by exactly one or two segments (no
\* pad at the via) yields a track holding the via and each of those segments,
\* whatever their layers.  Refuted: two touching segments on the same layer
\* make a branch for the chain walk and the track is the via alone.
C9_ViaWithOneOrTwoSegments ==
    (/\ IsMark /\ res.aTrace # NULL
     /\ geom[res.aTrace].type = "PCB_VIA_T"
     /\ PadAt(geom[res.aTrace].start) = {}
     /\ Cardinality(TouchingAt(res.aTrace, geom[res.aTrace].start,
                               geom[res.aTrace].layers)) \in {1, 2})
    => ({res.aTrace} \cup TouchingAt(res.aTrace, geom[res.aTrace].start,
                                     geom[res.aTrace].layers)) \subseteq res.marked

\* C10: MarkTrace started on a via touched by three or more other items
\* within its layer span returns the via itself, count 1, and the via is the
\* only item of the track and the only item flagged.
C10_ViaWithThreeSegments ==
    (/\ IsMark /\ res.aTrace # NULL
     /\ geom[res.aTrace].type = "PCB_VIA_T"
     /\ Cardinality(TouchingAt(res.aTrace, geom[res.aTrace].start,
                               geom[res.aTrace].layers)) >= 3)
    => /\ res.ret = res.aTrace
       /\ res.hasCount => res.count = 1
       /\ res.marked = {res.aTrace}
       /\ BusyOnBoard = {res.aTrace}

\* the via V1 with three segments on two layers at its position
C10_Witness ==
    /\ IsMark /\ res.aTrace = V1 /\ res.hasCount
    /\ Cardinality(TouchingAt(V1, P1, Layers)) >= 3
    /\ \E u \in TouchingAt(V1, P1, Layers) : geom[u].layer = 1
    /\ res.count = 1

\* the walks, on boards that can hold the loop T2 - V2 - T5 - V1; a walk runs
\* to its end once it is called
WalkItems == {T1, T2, T5, V1, V2, MA}

NextWalk ==
    \/ \E item \in WalkItems, mode \in AddModes : Add(item, mode)
    \/ \E item \in WalkItems : Remove(item)
    \/ \E aTrace \in Range(m_Track), atStart, first \in BOOLEAN :
          chainBegin(aTrace, atStart, first)
    \/ chainIterate
    \/ \E aStart \in QueryStarts, aGoal \in QueryGoals, t \in Range(m_Track) :
          checkBegin(aStart, aGoal, 1, t)
    \/ checkIterate
    \/ (Walking => res.done) /\ Return

SpecWalk ==
    Init /\ [][NextWalk]_vars /\ WF_vars(chainIterate) /\ WF_vars(checkIterate)

\* zone outlines, footprints and nets: the net codes against the registry and
\* the list of net names
ZoneItems == {Z1, MA}

\* what the caller's array holds before SortedNetnamesList
NameArrays == {<<>>, <<"GND">>}

NextZones ==
    \/ \E item \in ZoneItems, mode \in AddModes : Add(item, mode)
    \/ \E item \in OnBoard : Remove(item)
    \/ \E aNetcode \in {0, 1}, aAreaIdx \in {-1, 0} : InsertArea(aNetcode, aAreaIdx, 0, P0)
    \/ SetAreasNetCodesFromNetNames
    \/ \E aNames \in NameArrays, aSortbyPadsCount \in BOOLEAN :
          SortedNetnamesList(aNames, aSortbyPadsCount)
    \/ \E aNetlist \in Netlists, opt \in NetlistOptions : ReplaceNetlist(aNetlist, opt)
    \/ Return

SpecZones == Init /\ [][NextZones]_vars

\* the editing calls, those that break the precondition of Add and Remove
\* among them: a null item, a pad of a footprint of the board
EditItems == {T1, V1, Z1, MA}

NextEdit ==
    \/ \E item \in EditItems \cup {NULL} \cup Range(GetPads), mode \in AddModes :
          Add(item, mode)
    \/ \E item \in OnBoard \cup Range(GetPads) : Remove(item)
    \/ Return

SpecEdit == Init /\ [][NextEdit]_vars

\* the path check at stacked blind vias, in every order of the track list
StackItems == {T1, V3, V4, T6}

NextStack ==
    \/ \E item \in StackItems, mode \in AddModes : Add(item, mode)
    \/ \E item \in StackItems : Remove(item)
    \/ \E aStart \in QueryStarts, aGoal \in QueryGoals, t \in Range(m_Track) :
          checkBegin(aStart, aGoal, 1, t)
    \/ checkIterate
    \/ (Walking => res.done) /\ Return

SpecStack == Init /\ [][NextStack]_vars

\* the search in the sorted pad list: boards of up to three footprints, five
\* pads, put at places that make pads share a position, an x or nothing
PadModules == <<MA, MB, NewModuleIds[1]>>

Places ==
    (MA :> {P0, P1, P4}) @@ (MB :> {P0, P1, <<0, 2>>})
    @@ (NewModuleIds[1] :> {<<-1, -5>>, <<1, -5>>, <<-1, -3>>})

\* a footprint as the editing layer places it
Placed(m, pos) ==
    IF m \in DOMAIN ModuleCatalog THEN [ModuleCatalog[m] EXCEPT !.pos = pos]
    ELSE ModuleCopy(CompU9, pos)

\* the positions and layer sets asked for
PadPositions == {P0, P1, P2, P4, <<0, 2>>, <<1, 0>>}
LayerSets == SUBSET Layers

InitPads ==
    /\ m_Track = <<>>
    /\ geom = <<>>
    /\ busy = {}
    /\ \E on \in SUBSET Range(PadModules) :
          /\ m_Modules = SelectSeq(PadModules, LAMBDA m : m \in on)
          /\ mods \in {f \in [on -> UNION {{Placed(m, pos) : pos \in Places[m]} : m \in on}] :
                          \A m \in on : \E pos \in Places[m] : f[m] = Placed(m, pos)}
          /\ conn = UNION {Range(Pads(m)) : m \in on}
    /\ padcode \in {c \in [AllPads -> {0, 1}] : \A p \in AllPads \ {PadA1, PadB2} : c[p] = 0}
    /\ m_ZoneDescriptorList = <<>>
    /\ m_NetInfo = <<"", "VCC">>
    /\ res = [op |-> "idle"]

\* GetSortedPadListByXthenYCoord( aVector, aNetCode ) on an empty aVector
GetSortedPadListByXthenYCoord(aNetCode) ==
    /\ Idle
    /\ \E aVector \in SortedPadLists(aNetCode) :
          res' = [op |-> "GetSortedPadListByXthenYCoord", aNetCode |-> aNetCode,
                  aVector |-> aVector]
    /\ UNCHANGED <<m_Track, geom, busy, m_Modules, mods, padcode,
                   m_ZoneDescriptorList, m_NetInfo, conn>>

\* GetPad( aPadList, aPosition, aLayerSet ) on the list the caller got from
\* GetSortedPadListByXthenYCoord
GetPadOfList(aPosition, aLayerSet) ==
    /\ res.op = "GetSortedPadListByXthenYCoord"
    /\ res' = [op |-> "GetPad", aPadList |-> res.aVector, aPosition |-> aPosition,
               aLayerSet |-> aLayerSet,
               ret |-> GetPadInList(res.aVector, aPosition, aLayerSet)]
    /\ UNCHANGED <<m_Track, geom, busy, m_Modules, mods, padcode,
                   m_ZoneDescriptorList, m_NetInfo, conn>>

NextPads ==
    \/ \E aNetCode \in {-1, 0, 1} : GetSortedPadListByXthenYCoord(aNetCode)
    \/ \E aPosition \in PadPositions, aLayerSet \in LayerSets :
          GetPadOfList(aPosition, aLayerSet)
    \/ Return

SpecPads == InitPads /\ [][NextPads]_vars

(***************************************************************************)
(* Frame of the queries.                                                   *)
(***************************************************************************)
\* a step that is a call of MarkTrace
MarkStep == Idle /\ res'.op = "MarkTrace"

\* everything of the board but the track list and the BUSY flags
StoreButTrackList == <<geom, m_Modules, mods, padcode, m_ZoneDescriptorList, m_NetInfo, conn>>

\* the items of list that are not in set, in list order
Others(list, set) == SelectSeq(list, LAMBDA t : t \notin set)

\* C11 as claimed: whatever its arguments, MarkTrace leaves the members and
\* the order of the board's track list as they were.  Refuted: with
\* aReorder = true the flagged items are moved behind the first flagged one.
C11_TrackListUntouched == [][MarkStep => m_Track' = m_Track]_vars

\* C11 amended: MarkTrace changes nothing of the board but the BUSY flags and
\* the order of the track list; the members of the list are the same after
\* the call; with aReorder = false the order is the same too; with
\* aReorder = true the items that are not flagged keep their relative order.
C11_MembersKeptOrderOnlyWithoutReorder ==
    [][MarkStep =>
          /\ UNCHANGED StoreButTrackList
          /\ Len(m_Track') = Len(m_Track)
          /\ Range(m_Track') = Range(m_Track)
          /\ ~res'.aReorder => m_Track' = m_Track
          /\ res'.aReorder => Others(m_Track', busy') = Others(m_Track, busy')]_vars

\* a track of several items that do not follow one another in the list,
\* marked without reordering
C11_Witness ==
    /\ IsMark /\ ~res.aReorder
    /\ \E i, j, k \in 1..Len(m_Track) :
          /\ i < j /\ j < k
          /\ m_Track[i] \in res.marked /\ m_Track[k] \in res.marked
          /\ m_Track[j] \notin res.marked

\* a step that is a call of TracksInNetBetweenPoints
PathStep == Idle /\ res'.op = "TracksInNetBetweenPoints"

\* the board: its containers, every item's fields, the BUSY flags, the pads'
\* net codes, the registry and the connectivity index
Board == <<m_Track, geom, busy, m_Modules, mods, padcode, m_ZoneDescriptorList, m_NetInfo, conn>>

\* C12: a call of TracksInNetBetweenPoints, whether it returns a path or
\* throws, leaves the board as it was: the containers and their order, every
\* item's end points, layer, net code and BUSY flag, and the connectivity
\* index.
C12_PathQueryLeavesBoard == [][PathStep => UNCHANGED Board]_vars

\* a call that returned a path of two tracks or more, each of them taken out
\* of the working set on the way, on a board that still lists them
C12_Witness ==
    /\ IsQuery /\ ~res.thrown
    /\ Len(res.tracks) >= 2
    /\ Range(res.tracks) \subseteq Range(m_Track)

\* a call that threw on a board with tracks in the net
C12_WitnessThrown == IsQuery /\ res.thrown /\ TracksInNet(res.aNetCode) # <<>>

(***************************************************************************)
(* Termination of the walks.                                               *)
(***************************************************************************)
\* the segments a pass of chainMarkedSegments flagged
NewlyFlagged == busy' \ busy

\* C13: every walk ends, loops of segments and vias included.  A pass of
\* chainMarkedSegments either ends the walk, flagging nothing, or pushes and
\* flags exactly one segment that was not flagged; a pass of checkConnectedTo
\* either ends the walk (it returned or threw) or takes at least one track
\* out of the working set; no walk makes more passes than the board has
\* tracks; and a walk that was begun comes to its end.
C13_WalksTerminate ==
    /\ [][chainIterate =>
             \/ res'.done /\ NewlyFlagged = {}
             \/ /\ ~res'.done
                /\ Cardinality(NewlyFlagged) = 1
                /\ NewlyFlagged \subseteq Range(m_Track)
                /\ res'.aList[Len(res'.aList)] \in NewlyFlagged]_vars
    /\ [][checkIterate => (res'.done \/ Len(res'.in_net) < Len(res.in_net))]_vars
    /\ [](Walking => res.steps <= Len(m_Track))
    /\ (Walking ~> (Walking /\ res.done))

\* the loop T2 - V2 - T5 - V1 is on the board and a walk of
\* chainMarkedSegments went round it, flagging both its segments, and ended
C13_Witness ==
    /\ res.op = "chainMarkedSegments" /\ res.done
    /\ {T2, T5, V1, V2} \subseteq Range(m_Track)
    /\ {T2, T5} \subseteq busy
    /\ V1 \in Range(res.aList) /\ V2 \in Range(res.aList)
    /\ res.steps >= 2

\* a walk of checkConnectedTo went round the same loop and ended
C13_WitnessCheck ==
    /\ res.op = "checkConnectedTo" /\ res.done
    /\ {T2, T5, V1, V2} \subseteq Range(res.aList)
    /\ res.steps >= 2

(***************************************************************************)
(* Add and Remove.                                                         *)
(***************************************************************************)
\* C14: for an item x that is not on the board, Add( x ) followed by
\* Remove( x ) leaves the item containers (same members, same order) and the
\* connectivity index as they were before the Add.
C14_AddThenRemoveRestores ==
    (res.op = "RemoveAdded") => (Containers = res.was)

\* a footprint was added to a board that holds a track, a zone outline and
\* registered pads of other footprints, and removed again
C14_Witness ==
    /\ res.op = "RemoveAdded"
    /\ res.item \in AllModuleIds
    /\ m_Track # <<>> /\ m_ZoneDescriptorList # <<>>
    /\ conn \cap AllPads # {}

\* C15 as claimed: after any sequence of Add, Remove and ReplaceNetlist calls
\* the pad count reported through the connectivity index equals the number
\* of pads of the footprints on the board.  Refuted: ReplaceNetlist takes a
\* pad whose net it clears out of the index and leaves it out.
C15_PadCountIsNumberOfPads == Idle => (GetNodesCount = Len(GetPads))

(***************************************************************************)
(* Net codes against the registry.                                         *)
(***************************************************************************)
\* C16 as claimed: after any sequence of Add, Remove, ReplaceNetlist,
\* InsertArea and SetAreasNetCodesFromNetNames calls every pad, track, via
\* and zone outline of the board has net code 0 or the code of a net of the
\* registry, never a negative or an unregistered one.  Refuted: InsertArea
\* stores the code it is given and SetAreasNetCodesFromNetNames turns the
\* code of a zone outline whose net is not found into -1.
C16_NetCodesAreRegistered ==
    /\ \A i \in 1..Len(GetPads) : IsRegistered(m_NetInfo, padcode[GetPads[i]])
    /\ \A x \in Range(m_Track) \cup Range(m_ZoneDescriptorList) :
          IsRegistered(m_NetInfo, geom[x].net)

\* the same for the calls of SetAreasNetCodesFromNetNames alone: it leaves no
\* negative code
C16_NoNegativeCodeAfterSetAreas ==
    (res.op = "SetAreasNetCodesFromNetNames") =>
        \A x \in Range(m_ZoneDescriptorList) : geom[x].net >= 0

(***************************************************************************)
(* Lock points.                                                            *)
(***************************************************************************)
\* C17 as claimed: for a segment with start # end and every requested
\* position, after CreateLockPoint the original segment and the segment it
\* inserted both have start # end.  Refuted: a position beside the segment
\* that projects onto one of its ends passes the test of the ends and the
\* segment is broken at that end.
C17_NoZeroLengthSegment ==
    (res.op = "CreateLockPoint" /\ res.ret \notin {NULL, res.aSegment}) =>
        /\ geom[res.aSegment].start # geom[res.aSegment].end
        /\ geom[res.ret].start # geom[res.ret].end

(***************************************************************************)
(* MarkTrace on an isolated segment.                                       *)
(***************************************************************************)
\* no other track or via of the board and no pad has an end at pos on a
\* layer of t
FreeEnd(t, pos) ==
    /\ TouchingAt(t, pos, geom[t].layers) = {}
    /\ \A p \in PadAt(pos) : (PadInfo[p].layers \cap geom[t].layers) = {}

Isolated(t) ==
    /\ geom[t].type = "PCB_TRACE_T"
    /\ FreeEnd(t, geom[t].start) /\ FreeEnd(t, geom[t].end)

\* C18: MarkTrace on a segment that no other segment, via or pad touches at
\* either end returns that segment, an item count of 1, a trace length equal
\* to the length of the segment and a pad-to-die length of 0 (the count and
\* the length when they are asked for).
C18_IsolatedSegment ==
    (IsMark /\ res.aTrace \in BoardTracks /\ Isolated(res.aTrace)) =>
        /\ res.ret = res.aTrace
        /\ res.marked = {res.aTrace}
        /\ res.hasCount => res.count = 1
        /\ res.hasLength => res.traceLength = GetLength(res.aTrace)
        /\ res.padToDie = 0

\* an isolated segment, not the only item of the board nor the last of the
\* list, was marked with all the outputs asked for
C18_Witness ==
    /\ IsMark /\ res.aTrace \in BoardTracks /\ Isolated(res.aTrace)
    /\ res.hasCount /\ res.hasLength
    /\ Len(m_Track) >= 2 /\ m_Track[Len(m_Track)] # res.aTrace
    /\ m_Modules # <<>>

(***************************************************************************)
(* The sorted list of net names.                                           *)
(***************************************************************************)
\* the names SortedNetnamesList added to the array
Added == SubSeq(res.aNames, Len(res.aNamesIn) + 1, Len(res.aNames))

\* the pad count of the net of that name
PadCountOf(aNetname) == GetPadCount(conn, padcode, FindNet(m_NetInfo, aNetname))

\* C19: SortedNetnamesList keeps what the array held and appends the name of
\* every net of the registry with a code above 0, each once and no other
\* name, and returns their number; with aSortbyPadsCount the names come by
\* descending pad count, equal counts by ascending name, otherwise by
\* ascending name; the name of net 0 is not listed.
C19_SortedNetnames ==
    (res.op = "SortedNetnamesList") =>
        /\ SubSeq(res.aNames, 1, Len(res.aNamesIn)) = res.aNamesIn
        /\ res.ret = Len(Added)
        /\ Len(Added) = Len(m_NetInfo) - 1
        /\ \A c \in 1..(Len(m_NetInfo) - 1) :
              Cardinality({i \in 1..Len(Added) : Added[i] = m_NetInfo[c + 1]}) = 1
        /\ \A i \in 1..Len(Added) : Added[i] # m_NetInfo[1]
        /\ \A i, j \in 1..Len(Added) :
              i < j =>
                 IF res.aSortbyPadsCount
                 THEN \/ PadCountOf(Added[i]) > PadCountOf(Added[j])
                      \/ /\ PadCountOf(Added[i]) = PadCountOf(Added[j])
                         /\ NameLess(Added[i], Added[j])
                 ELSE NameLess(Added[i], Added[j])

\* sorted by pad count, the net with more pads comes first although its name
\* is the greater one, behind what the array held
C19_Witness ==
    /\ res.op = "SortedNetnamesList" /\ res.aSortbyPadsCount
    /\ res.aNamesIn # <<>>
    /\ Len(Added) = 2
    /\ NameLess(Added[2], Added[1])
    /\ PadCountOf(Added[1]) > PadCountOf(Added[2])

\* sorted by name, against the order of the registry
C19_WitnessByName ==
    /\ res.op = "SortedNetnamesList" /\ ~res.aSortbyPadsCount
    /\ Len(Added) = 2
    /\ Added[1] = m_NetInfo[3]

(***************************************************************************)
(* Add and Remove on an item they have no container for.                   *)
(***************************************************************************)
\* a step that is a call of Add with a null item, or of Add or Remove with
\* an item of a type without a container (a pad; its parent is its footprint
\* and is no variable of the model)
BadItemStep ==
    /\ Idle
    /\ res'.op \in {"Add", "Remove"}
    /\ res'.item = NULL \/ Type(res'.item) \notin ContainerTypes

\* C20 as claimed: Add with a null item, and Add or Remove with an item whose
\* type the board has no container for, change no container of the board
\* and do not change the connectivity index.  Refuted: Remove makes its call
\* on the index behind the switch for such an item too.
C20_BadItemLeavesBoard ==
    [][BadItemStep =>
          UNCHANGED <<m_Track, m_Modules, m_ZoneDescriptorList, geom, mods, conn>>]_vars

\* the part of the claim that is about Add
C20_BadAddLeavesBoard ==
    [][(BadItemStep /\ res'.op = "Add") =>
          UNCHANGED <<m_Track, m_Modules, m_ZoneDescriptorList, geom, mods, conn>>]_vars

(***************************************************************************)
(* C21: a component whose footprint is missing does not end ReplaceNetlist. *)
(***************************************************************************)
\* a step of ReplaceNetlist
ReplaceStep == Idle /\ res'.op = "ReplaceNetlist"

\* the components of the netlist whose footprint was not loaded and that
\* match no footprint of the board
MissingAt(aNetlist, opt) ==
    {i \in 1..Len(aNetlist) :
        /\ ~aNetlist[i].module
        /\ FindModule(m_Modules, mods,
                      IF opt.findByTimeStamp THEN aNetlist[i].timeStamp
                      ELSE aNetlist[i].reference,
                      opt.findByTimeStamp) = NULL}

\* the netlist without its i-th component
SkipAt(aNetlist, i) == SubSeq(aNetlist, 1, i - 1) \o SubSeq(aNetlist, i + 1, Len(aNetlist))

\* the entry the reporter gets for the component without a footprint
CannotAdd(component) ==
    [severity |-> "RPT_ERROR",
     text |-> "Cannot add new component due to missing footprint",
     about |-> component.reference]

\* C21: ReplaceNetlist never aborts because of one component.  For a
\* component whose footprint is missing: the reporter, when there is one,
\* gets an error entry for it; no footprint is added for it; the board
\* after the call is the board the call leaves for the netlist without that
\* component, so every other component is processed; and the net registry
\* is rebuilt and the ratsnest recomputed as the last step.
C21_MissingFootprintIsSkipped ==
    [][ReplaceStep =>
          \A i \in MissingAt(res'.aNetlist, res'.opt) :
              \E rest \in {ReplaceNetlistResult(SkipAt(res'.aNetlist, i), res'.opt)} :
                  /\ res'.opt.reporter =>
                        CannotAdd(res'.aNetlist[i]) \in Range(res'.report)
                  /\ \A m \in DOMAIN mods' \ DOMAIN mods :
                        mods'[m].reference # res'.aNetlist[i].reference
                  /\ m_Modules' = rest.m_Modules
                  /\ mods' = rest.mods
                  /\ padcode' = rest.padcode
                  /\ m_NetInfo' = rest.m_NetInfo
                  /\ conn' = rest.conn
                  /\ "BuildListOfNets" \in Range(res'.log)
                  /\ res'.log[Len(res'.log)] = "RecalculateRatsnest"]_vars

\* a netlist whose first component has no footprint was applied, the
\* reporter has the error and the component after it changed the value of
\* the footprint MA
C21_Witness ==
    /\ res.op = "ReplaceNetlist"
    /\ res.aNetlist = <<CompU9Missing, CompU1A>>
    /\ ~res.opt.dryRun
    /\ CannotAdd(CompU9Missing) \in Range(res.report)
    /\ MA \in DOMAIN mods
    /\ mods[MA].value = "22k"
    /\ res.log[Len(res.log)] = "RecalculateRatsnest"

(***************************************************************************)
(* C22: what one pass of chainMarkedSegments takes.                        *)
(***************************************************************************)
\* the pads at the position on the layer mask
PadsOn(pos, ls) ==
    {p \in Range(GetPads) : GetPosition(p) = pos /\ (PadInfo[p].layers \cap ls) # {}}

\* the vias of the board at the position that cross the layer mask and are
\* not flagged
ViasOn(pos, ls) ==
    {v \in BoardTracks \ busy :
        geom[v].type = "PCB_VIA_T" /\ geom[v].start = pos /\ (geom[v].layers \cap ls) # {}}

\* the via the pass absorbs: the item it pushed that is no candidate
Absorbed == {v \in ViasOn(res.aPosition, res.layer_set) :
                Len(res'.aList) > Len(res.aList) /\ res'.aList[Len(res.aList) + 1] = v}

\* the layer mask of the pass: the span of the absorbed via, if any
PassMask == IF Absorbed = {} THEN res.layer_set
            ELSE UNION {geom[v].layers : v \in Absorbed}

\* the segments and vias that are not flagged, touch the position on the
\* mask of the pass and are not the absorbed via
Candidates ==
    {t \in BoardTracks \ (busy \cup Absorbed) :
        Touches(t, res.aPosition) /\ (geom[t].layers \cap PassMask) # {}}

\* C22: a pass of chainMarkedSegments pushes and flags a segment only when
\* no pad is at the position on the layer mask and the segment is the one
\* candidate there; the walk then goes on from its other end with the mask
\* of that segment.  With a pad, or with no or several candidates, the walk
\* ends and nothing more is flagged; a via at the position is absorbed
\* unless a pad ended the walk.
C22_StepTakesTheOnlyCandidate ==
    [][chainIterate =>
          /\ (ViasOn(res.aPosition, res.layer_set) # {}
                /\ PadsOn(res.aPosition, res.layer_set) = {}) => Absorbed # {}
          /\ \A s \in NewlyFlagged :
                /\ PadsOn(res.aPosition, res.layer_set) = {}
                /\ Candidates = {s}
                /\ res'.aList[Len(res'.aList)] = s
                /\ res'.aPosition = otherEnd(s, res.aPosition)
                /\ res'.layer_set = geom[s].layers
                /\ ~res'.done
          /\ (PadsOn(res.aPosition, res.layer_set) # {} \/ Cardinality(Candidates) # 1)
                => (res'.done /\ NewlyFlagged = {})
          /\ (PadsOn(res.aPosition, res.layer_set) = {} /\ Cardinality(Candidates) = 1)
                => NewlyFlagged = Candidates]_vars

\* a walk reached the via V1 from the segment T1 on layer 0, absorbed it and
\* went on through T5, the one candidate, on layer 1
C22_Witness ==
    /\ res.op = "chainMarkedSegments"
    /\ {T1, T5, V1} \subseteq Range(m_Track)
    /\ T2 \notin Range(m_Track)
    /\ res.aList = <<V1, T5>>
    /\ T5 \in busy
    /\ res.aPosition = P2
    /\ res.layer_set = {1}

\* a walk ended at a pad, and one ended at a branch, flagging nothing there
C22_WitnessEnds ==
    /\ res.op = "chainMarkedSegments" /\ res.done
    /\ \/ PadsOn(res.aPosition, res.layer_set) # {}
       \/ Cardinality({t \in BoardTracks \ busy : Touches(t, res.aPosition)}) > 1

(***************************************************************************)
(* C23: the vias the chain walk of MarkTrace collected.                    *)
(***************************************************************************)
\* the vias, other than the start item, that the chain walk of
\* MarkTrace( aTrace ) collects on the board as it is
CollectedVias(aTrace) ==
    {v \in Range(MarkChains(aTrace, (busy \ Range(m_Track)) \cup {aTrace}).list) :
        geom[v].type = "PCB_VIA_T" /\ v # aTrace}

\* the items outside the track that touch the via within its layer span
Outside(v, flagged) ==
    {t \in BoardTracks \ (flagged \cup {v}) :
        Touches(t, geom[v].start) /\ (geom[t].layers \cap geom[v].layers) # {}}

C23_WitnessLeftOut ==
    /\ res.op = "MarkTrace" /\ res.aTrace = T1
    /\ Range(m_Track) = {T1, T2, T5, V1}
    /\ MA \notin Range(m_Modules)
    /\ res.marked = {T1}

(***************************************************************************)
(* C24: the count MarkTrace reports.                                       *)
(***************************************************************************)
\* C24 as claimed: the count MarkTrace stores in aCount is the number of
\* items flagged as the track, with and without aReorder, with and without
\* aTraceLength.  Refuted: without aReorder and without aTraceLength the
\* count is 1 whatever the number of flagged items.
C24_CountIsNumberFlagged ==
    (IsMark /\ res.hasCount) => res.count = Cardinality(res.marked)

(***************************************************************************)
(* C25: the track list after MarkTrace with aReorder.                      *)
(***************************************************************************)
\* C25: MarkTrace with aReorder returns the item that was the first flagged
\* one in the order the track list had; from that item on the list holds
\* the flagged items of the track, one after the other, as many as the
\* count says; the items outside the track keep their order; and the list
\* holds the same items as before, each once.
C25_ReorderMakesTrackConsecutive ==
    [][(MarkStep /\ res'.aReorder /\ res'.aTrace # NULL) =>
          /\ res'.ret = Head(SelectSeq(m_Track, LAMBDA t : t \in res'.marked))
          /\ \E n \in {IF res'.hasCount THEN res'.count ELSE Cardinality(res'.marked)} :
                /\ n = Cardinality(res'.marked)
                /\ IndexOf(m_Track', res'.ret) + n - 1 <= Len(m_Track')
                /\ Range(SubSeq(m_Track', IndexOf(m_Track', res'.ret),
                                IndexOf(m_Track', res'.ret) + n - 1)) = res'.marked
          /\ Others(m_Track', res'.marked) = Others(m_Track, res'.marked)
          /\ Len(m_Track') = Len(m_Track)
          /\ Range(m_Track') = Range(m_Track)]_vars

\* MarkTrace with aReorder and a count returned the track T1, T2 of layer 0
\* at the head of the list, T5 of layer 1, which is not in the track, after it
C25_Witness ==
    /\ res.op = "MarkTrace" /\ res.aReorder /\ res.hasCount
    /\ res.ret = T1
    /\ res.count = 2
    /\ res.marked = {T1, T2}
    /\ m_Track = <<T1, T2, T5>>

(***************************************************************************)
(* C26: the order of the steps of ReplaceNetlist.                          *)
(***************************************************************************)
\* the steps that change the footprints of the board, the net code of a
\* pad or the registration of an item in the index
ChangeSteps ==
    {"Add", "Remove", "DeleteStructure", "SetNetCode", "m_connectivity->Add",
     "m_connectivity->Remove"}

\* C26 as claimed: in a call of ReplaceNetlist that is no dry run, every
\* step that changes the footprints of the board, a pad's net code or the
\* index comes before BuildListOfNets, and RecalculateRatsnest comes after
\* it as the last step.  Refuted: the single pad nets are removed after the
\* rebuild.
C26_ChangesBeforeRebuild ==
    (res.op = "ReplaceNetlist" /\ ~res.opt.dryRun) =>
        \E k \in 1..Len(res.log) :
            /\ res.log[k] = "BuildListOfNets"
            /\ res.log[Len(res.log)] = "RecalculateRatsnest"
            /\ \A i \in (k + 1)..Len(res.log) : res.log[i] \notin ChangeSteps

(***************************************************************************)
(* C27: the count in the failure reason of checkConnectedTo.                *)
(***************************************************************************)
\* C27 as claimed: when checkConnectedTo fails because the number of next
\* tracks at the position is not 1, the number in its failure reason is the
\* number of tracks found there: 0 at a dead end, k at a branch of k tracks.
\* Refuted: the number printed is 1 at a dead end the first track runs
\* into and 0 in every other case, a branch of k tracks included.
C27_ReasonCarriesTrackCount ==
    IsQuery =>
        \A i \in 1..Len(res.problems) :
            res.problems[i].kind = "found tracks intersecting"
                => res.problems[i].count = res.problems[i].found

(***************************************************************************)
(* C28: the search in the sorted pad list.                                 *)
(***************************************************************************)
\* the pads of the list at the position asked for that match the layer set
Matching ==
    {p \in Range(res.aPadList) :
        GetPosition(p) = res.aPosition /\ (PadInfo[p].layers \cap res.aLayerSet) # {}}

\* C28: for a pad list sorted by x then y, a position and a layer set,
\* GetPad( list, position, layer set ) returns a pad of the list at exactly
\* that position whose layers meet the layer set when the list has one, and
\* null when it has none; the list sorted is the pads of the net asked for,
\* each once, none before a pad of smaller x, or of the same x and smaller y.
C28_GetPadFindsMatchingPad ==
    /\ (res.op = "GetPad") =>
          /\ Matching # {} => res.ret \in Matching
          /\ Matching = {} => res.ret = NULL
    /\ (res.op = "GetSortedPadListByXthenYCoord") =>
          /\ Len(res.aVector) = Cardinality(Range(res.aVector))
          /\ Range(res.aVector) =
                {p \in Range(GetPads) : res.aNetCode < 0 \/ padcode[p] = res.aNetCode}
          /\ \A i, j \in 1..Len(res.aVector) :
                i < j => \/ GetPosition(res.aVector[i])[1] < GetPosition(res.aVector[j])[1]
                         \/ /\ GetPosition(res.aVector[i])[1] = GetPosition(res.aVector[j])[1]
                            /\ GetPosition(res.aVector[i])[2] <= GetPosition(res.aVector[j])[2]

\* in a list of five pads the pad returned is not the first one at the
\* position: another pad at the same position, on another layer, comes
\* before it
C28_Witness ==
    /\ res.op = "GetPad"
    /\ Len(res.aPadList) = 5
    /\ res.ret # NULL
    /\ \E i, j \in 1..5 :
          /\ i < j /\ res.aPadList[j] = res.ret
          /\ GetPosition(res.aPadList[i]) = res.aPosition
          /\ res.aPadList[i] \notin Matching

\* the search in the empty list, and a search that finds no pad in a list
\* that holds pads at the position
C28_WitnessNull ==
    /\ res.op = "GetPad" /\ res.ret = NULL
    /\ \/ res.aPadList = <<>>
       \/ \E i \in 1..Len(res.aPadList) : GetPosition(res.aPadList[i]) = res.aPosition

(***************************************************************************)
(* C29: the vias find_vias_and_tracks_at absorbs.                          *)
(***************************************************************************)
\* a pass of checkConnectedTo that calls find_vias_and_tracks_at
FindCall ==
    /\ checkIterate
    /\ res.in_net # <<>>
    /\ res.next # res.aGoal
    /\ GetPadFast(res.next, res.lset) = NULL

\* the vias of the list at the position
ViasAt(list, pos) ==
    {v \in Range(list) : geom[v].type = "PCB_VIA_T" /\ Touches(v, pos)}

RECURSIVE Joined(_, _)
\* the layers joined to ls by the vias, directly or through one another
Joined(ls, vias) ==
    IF \A v \in vias : (geom[v].layers \cap ls) # {} => geom[v].layers \subseteq ls
    THEN ls
    ELSE Joined(ls \cup UNION {geom[v].layers : v \in {w \in vias : (geom[w].layers \cap ls) # {}}},
                vias)

\* the segments of the list with an end at the position on a layer of ls
SegmentsAt(list, pos, ls) ==
    {t \in Range(list) :
        geom[t].type = "PCB_TRACE_T" /\ Touches(t, pos) /\ (geom[t].layers \cap ls) # {}}

\* C29 as claimed: when find_vias_and_tracks_at returns, whatever the order
\* of the net list, no via at the position whose span meets the widened
\* layer set is left in the list, the layer set is widened by every via the
\* widening reaches, and the count is the number of segments at the position
\* on the layers the stacked vias join.  Refuted: a via that comes in the
\* list before the via that makes it reachable is not absorbed; the second
\* loop takes it for a track.
C29_StackedViasAbsorbed ==
    [][FindCall =>
          \E f \in {find_vias_and_tracks_at(res.aList, res.in_net, res.lset, res.next)} :
              /\ \A v \in ViasAt(f.in_net, res.next) : (geom[v].layers \cap f.lset) = {}
              /\ f.lset = Joined(res.lset, ViasAt(res.in_net, res.next))
              /\ f.track_count =
                    Cardinality(SegmentsAt(res.in_net, res.next,
                                           Joined(res.lset, ViasAt(res.in_net, res.next))))]_vars

\* the part of the claim that holds: no via at the position whose span meets
\* the resulting layer set is left in the working list
C29_NoViaLeft ==
    [][FindCall =>
          \E f \in {find_vias_and_tracks_at(res.aList, res.in_net, res.lset, res.next)} :
              \A v \in ViasAt(f.in_net, res.next) : (geom[v].layers \cap f.lset) = {}]_vars

(***************************************************************************)
(* C30: ReplaceNetlist as a dry run.                                       *)
(***************************************************************************)
\* C30: a call of ReplaceNetlist with a netlist in dry-run mode adds,
\* removes and replaces no footprint, changes no footprint's reference,
\* value or path, changes no pad's net code and registers or deregisters no
\* item in the connectivity index: the board is as it was, no new footprint
\* is handed back, and none of the steps taken changes an item; what the
\* call would have done is in the entries sent to the reporter.
C30_DryRunLeavesBoard ==
    [][(ReplaceStep /\ res'.opt.dryRun) =>
          /\ UNCHANGED Board
          /\ res'.aNewFootprints = <<>>
          /\ res'.replaced = <<>>
          /\ \A i \in 1..Len(res'.log) : res'.log[i] \notin ChangeSteps]_vars

\* a dry run on a board with the footprint MA: the reporter was told of the
\* footprint to replace and of the pad nets to change, MA is still the
\* footprint of the board, with its library id and its pad on no net
C30_Witness ==
    /\ res.op = "ReplaceNetlist" /\ res.opt.dryRun
    /\ res.aNetlist = <<CompU1R>>
    /\ m_Modules = <<MA>>
    /\ mods[MA].fpid = "libA"
    /\ padcode[PadA1] = 0
    /\ \E i \in 1..Len(res.report) :
          /\ res.report[i].severity = "RPT_ACTION"
          /\ res.report[i].text = "Replacing component footprint"
    /\ \E i \in 1..Len(res.report) :
          res.report[i].text = "Changing component pin net name"

====
